---- MODULE Spec2Model ----
(***************************************************************************)
(* A model of the jlox tree-walking interpreter (src/src/interpreter.rs)   *)
(* as a small-step machine: the recursion of Interpreter::evaluate and     *)
(* Interpreter::execute is made explicit as a stack of frames, one frame   *)
(* per visitor method that is waiting for a sub-expression or a            *)
(* sub-statement to finish.                                                *)
(***************************************************************************)
EXTENDS Integers, Sequences, FiniteSets, TLC

VARIABLES
    envs,     \* the live Environment nodes: id -> [enclosing, store]
    env,      \* Interpreter::env, the id of the current Environment
    ctl,      \* what the interpreter is doing now (evaluate / execute / a result)
    kont,     \* the visitor methods waiting for that result, innermost first
    out,      \* the lines println! has written to standard output
    inputs,   \* the statement lists handed to Interpreter::interpret so far
    result,   \* what the last call of Interpreter::interpret returned
    now,      \* the last reading of the system clock, in seconds
    declEnv,  \* history: function name -> the Environment current when it was declared
    parser,   \* a Parser: its tokens and cursor, and the locals of Parser::parse
    scanner   \* a Scanner: its source, tokens and cursors

vars == <<envs, env, ctl, kont, out, inputs, result, now, declEnv, parser, scanner>>

(***************************************************************************)
(* Bounds of the model.                                                    *)
(***************************************************************************)
\* how many statement lists one Interpreter is given (the REPL loop)
MaxInputs == 2
\* the clock readings are 0..MaxClock
MaxClock == 1
\* digits after the decimal point that Display prints for a Number
MaxFracDigits == 3
\* the Parser is given every sequence of at most MaxTokens tokens of TokenAlphabet
MaxTokens == 3
\* the Scanner is given every source of at most MaxSource chars of SourceAlphabet
MaxSource == 3

(***************************************************************************)
(* Value (interpreter.rs:72-80).  A Number is an f64; the model keeps it   *)
(* as a fraction num/den in lowest terms, den = 0 standing for the         *)
(* infinities (num = 1, -1) and NaN (num = 0).                             *)
(***************************************************************************)
Nil == [t |-> "Nil"]
Boolean(b) == [t |-> "Boolean", b |-> b]
String(s) == [t |-> "String", s |-> s]
Abs(n) == IF n < 0 THEN -n ELSE n
Sign(n) == IF n < 0 THEN -1 ELSE IF n > 0 THEN 1 ELSE 0

RECURSIVE Gcd(_, _)
Gcd(a, b) == IF b = 0 THEN a ELSE Gcd(b, a % b)

Fraction(num, den) ==
    IF den = 0 THEN [t |-> "Number", num |-> Sign(num), den |-> 0]
    ELSE LET g == Gcd(Abs(num), Abs(den))
             s == Sign(den)
         IN  [t |-> "Number", num |-> (s * num) \div g, den |-> Abs(den) \div g]

Number(n) == Fraction(n, 1)
NaN == Fraction(0, 0)
IsNaN(v) == v.den = 0 /\ v.num = 0
IsInf(v) == v.den = 0 /\ v.num # 0

NativeFunction(arity, name) == [t |-> "NativeFunction", arity |-> arity, name |-> name]
Function(declaration) == [t |-> "Function", declaration |-> declaration]

(***************************************************************************)
(* f64 arithmetic and ordering on the fractions.                           *)
(***************************************************************************)
F64Neg(a) == [t |-> "Number", num |-> -a.num, den |-> a.den]

F64Add(a, b) ==
    IF a.den = 0 /\ b.den = 0 THEN (IF a.num = b.num THEN a ELSE NaN)
    ELSE IF a.den = 0 THEN a
    ELSE IF b.den = 0 THEN b
    ELSE Fraction(a.num * b.den + b.num * a.den, a.den * b.den)

F64Sub(a, b) == F64Add(a, F64Neg(b))

F64Mul(a, b) ==
    IF a.den = 0 \/ b.den = 0
    THEN Fraction(Sign(a.num) * Sign(b.num), 0)
    ELSE Fraction(a.num * b.num, a.den * b.den)

F64Div(a, b) ==
    IF b.den = 0
    THEN (IF a.den = 0 THEN NaN ELSE Number(0))
    ELSE IF a.den = 0 THEN Fraction(a.num * (IF b.num < 0 THEN -1 ELSE 1), 0)
    ELSE Fraction(a.num * b.den, a.den * b.num)

\* a < b on f64: false whenever one side is NaN
F64Less(a, b) ==
    IF IsNaN(a) \/ IsNaN(b) THEN FALSE
    ELSE IF a.den = 0 /\ b.den = 0 THEN a.num < b.num
    ELSE IF a.den = 0 THEN a.num < 0
    ELSE IF b.den = 0 THEN b.num > 0
    ELSE a.num * b.den < b.num * a.den

\* a == b on f64: NaN is equal to nothing, itself included
F64Eq(a, b) == ~IsNaN(a) /\ ~IsNaN(b) /\ a.num = b.num /\ a.den = b.den

(***************************************************************************)
(* Display for Value (interpreter.rs:82-98): what println! writes.         *)
(***************************************************************************)
Digit(d) ==
    CASE d = 0 -> "0" [] d = 1 -> "1" [] d = 2 -> "2" [] d = 3 -> "3" [] d = 4 -> "4"
      [] d = 5 -> "5" [] d = 6 -> "6" [] d = 7 -> "7" [] d = 8 -> "8" [] d = 9 -> "9"

RECURSIVE NatToString(_)
NatToString(n) == IF n < 10 THEN Digit(n) ELSE NatToString(n \div 10) \o Digit(n % 10)

\* the digits of rem/den after the decimal point, at most k of them
RECURSIVE FracDigits(_, _, _)
FracDigits(rem, den, k) ==
    IF rem = 0 \/ k = 0 THEN ""
    ELSE Digit((rem * 10) \div den) \o FracDigits((rem * 10) % den, den, k - 1)

F64ToString(v) ==
    IF IsNaN(v) THEN "NaN"
    ELSE IF IsInf(v) THEN (IF v.num < 0 THEN "-inf" ELSE "inf")
    ELSE LET a == Abs(v.num)
             whole == NatToString(a \div v.den)
             frac == FracDigits(a % v.den, v.den, MaxFracDigits)
         IN  (IF v.num < 0 THEN "-" ELSE "") \o whole
                \o (IF frac = "" THEN "" ELSE "." \o frac)

Display(value) ==
    CASE value.t = "String" -> value.s
      [] value.t = "Number" -> F64ToString(value)
      [] value.t = "Boolean" -> (IF value.b THEN "true" ELSE "false")
      [] value.t = "Function" -> "<function " \o value.declaration.name.text \o ">"
      [] value.t = "NativeFunction" -> "<native function " \o value.name \o ">"
      [] value.t = "Nil" -> "null"

\* PartialEq for Value (interpreter.rs:72, derived): same variant, equal payload
ValueEq(a, b) ==
    /\ a.t = b.t
    /\ CASE a.t = "Number" -> F64Eq(a, b)
         [] a.t = "String" -> a.s = b.s
         [] a.t = "Boolean" -> a.b = b.b
         [] a.t = "Function" -> a.declaration = b.declaration
         [] a.t = "NativeFunction" -> a.arity = b.arity /\ a.name = b.name
         [] a.t = "Nil" -> TRUE

(***************************************************************************)
(* Token: a kind with its literal payload, the lexeme and the line.        *)
(***************************************************************************)
Token(token_type, text, line) == [token_type |-> token_type, text |-> text, line |-> line]
LiteralToken(token_type, literal, text, line) ==
    [token_type |-> token_type, literal |-> literal, text |-> text, line |-> line]

(***************************************************************************)
(* Expr (expr.rs:3-43) and Stmt (stmt.rs:3-39).  An Option is a sequence   *)
(* of length 0 or 1.                                                       *)
(***************************************************************************)
Literal(value) == [kind |-> "Literal", value |-> value]
Variable(name) == [kind |-> "Variable", name |-> name]
Assignment(name, value) == [kind |-> "Assignment", name |-> name, value |-> value]
Unary(operator, right) == [kind |-> "Unary", operator |-> operator, right |-> right]
Binary(left, operator, right) ==
    [kind |-> "Binary", left |-> left, operator |-> operator, right |-> right]
Call(callee, paren, args) ==
    [kind |-> "Call", callee |-> callee, paren |-> paren, args |-> args]
Grouping(expr) == [kind |-> "Grouping", expr |-> expr]
LogicOr(left, operator, right) ==
    [kind |-> "LogicOr", left |-> left, operator |-> operator, right |-> right]
LogicAnd(left, operator, right) ==
    [kind |-> "LogicAnd", left |-> left, operator |-> operator, right |-> right]

ExpressionStmt(expr) == [kind |-> "Expression", expr |-> expr]
FunctionDeclarationStmt(name, params, body) ==
    [kind |-> "FunctionDeclaration", name |-> name, params |-> params, body |-> body]
PrintStmt(expr) == [kind |-> "Print", expr |-> expr]
ReturnStmt(keyword, value) == [kind |-> "Return", keyword |-> keyword, value |-> value]
VariableDeclarationStmt(name, initializer) ==
    [kind |-> "VariableDeclaration", name |-> name, initializer |-> initializer]
IfStmt(condition, then_branch, else_branch) ==
    [kind |-> "If", condition |-> condition, then_branch |-> then_branch,
     else_branch |-> else_branch]
WhileStmt(condition, body) == [kind |-> "While", condition |-> condition, body |-> body]
BlockStmt(stmts) == [kind |-> "Block", stmts |-> stmts]

(***************************************************************************)
(* Result<T> (lib.rs:12-40).                                               *)
(***************************************************************************)
Ok(value) == [ok |-> TRUE, value |-> value]
OkUnit == [ok |-> TRUE]
RuntimeError(token, message) ==
    [ok |-> FALSE, error |-> "RuntimeError", line |-> token.line, msg |-> message]
IsErr(res) == ~res.ok

(***************************************************************************)
(* Environment (interpreter.rs:375-423).  An Rc<RefCell<Environment>> is   *)
(* an id into envs; the enclosing link is an id, 0 for None.  The global   *)
(* Environment made by Interpreter::new has id 1.                          *)
(***************************************************************************)
NoEnv == 0
Global == 1

EnvironmentNew(enclosing) == [enclosing |-> enclosing, store |-> <<>>]

define(environment, name, value) ==
    [environment EXCEPT !.store = (name.text :> value) @@ @]

RECURSIVE get(_, _, _)
get(h, e, name) ==
    IF name.text \in DOMAIN h[e].store
    THEN Ok(h[e].store[name.text])
    ELSE IF h[e].enclosing # NoEnv
    THEN get(h, h[e].enclosing, name)
    ELSE RuntimeError(name, "Undefined variable: " \o name.text)

\* a variant of assign that writes the innermost scope whatever scope holds the name
assign_in_current(h, e, name, value) ==
    IF get(h, e, name).ok
    THEN [res |-> Ok(value), envs |-> [h EXCEPT ![e] = define(@, name, value)]]
    ELSE [res |-> RuntimeError(name, "Undefined variable " \o name.text), envs |-> h]

\* a variant of assign that binds an unknown name in the outermost scope
RECURSIVE assign_or_create(_, _, _, _)
assign_or_create(h, e, name, value) ==
    IF name.text \in DOMAIN h[e].store \/ h[e].enclosing = NoEnv
    THEN [res |-> Ok(value), envs |-> [h EXCEPT ![e] = define(@, name, value)]]
    ELSE assign_or_create(h, h[e].enclosing, name, value)

\* Environment::assign on node e of heap h: the result and the heap after it
RECURSIVE assign(_, _, _, _)
assign(h, e, name, value) ==
    IF name.text \in DOMAIN h[e].store
    THEN [res |-> Ok(value), envs |-> [h EXCEPT ![e] = define(@, name, value)]]
    ELSE IF h[e].enclosing # NoEnv
    THEN assign(h, h[e].enclosing, name, value)
    ELSE [res |-> RuntimeError(name, "Undefined variable " \o name.text), envs |-> h]

\* the ids on the chain that starts at node e, e first
RECURSIVE Chain(_, _)
Chain(h, e) ==
    IF e = NoEnv \/ e \notin DOMAIN h THEN <<>>
    ELSE <<e>> \o Chain(h, h[e].enclosing)

Range(seq) == {seq[i] : i \in DOMAIN seq}

\* the id a new Rc gets: the smallest one no live node has
FreshId(h) ==
    CHOOSE i \in 1..(Cardinality(DOMAIN h) + 1) :
        i \notin DOMAIN h /\ \A j \in 1..(i - 1) : j \in DOMAIN h

\* the Rc's the interpreter holds: Interpreter::env and the `previous` of every
\* execute_block that has not finished
Roots(e, k) == {e} \cup {k[i].previous : i \in {j \in DOMAIN k : k[j].f = "execute_block"}}

\* dropping an Rc frees every node no chain from a root reaches
Collect(h, roots) ==
    [i \in UNION {Range(Chain(h, r)) : r \in roots} |-> h[i]]

(***************************************************************************)
(* The pure parts of the interpreter's visitor methods.                    *)
(***************************************************************************)
is_truthy(value) ==
    CASE value.t = "String" -> TRUE
      [] value.t = "Number" -> TRUE
      [] value.t = "Boolean" -> value.b
      [] value.t = "Function" -> FALSE
      [] value.t = "NativeFunction" -> FALSE
      [] value.t = "Nil" -> FALSE

visit_literal(value) ==
    CASE value.token_type = "Nil" -> Ok(Nil)
      [] value.token_type = "False" -> Ok(Boolean(FALSE))
      [] value.token_type = "True" -> Ok(Boolean(TRUE))
      [] value.token_type = "Number" -> Ok(value.literal)
      [] value.token_type = "String" -> Ok(value.literal)
      [] OTHER -> RuntimeError(value, "Unknown literal type")

\* visit_unary once `right` has been evaluated to a value
unary(operator, right) ==
    CASE operator.token_type = "Minus" ->
            IF right.t = "Number" THEN Ok(F64Neg(right))
            ELSE RuntimeError(operator, "Operand must be a number")
      [] operator.token_type = "Bang" -> Ok(Boolean(is_truthy(right)))
      [] OTHER -> RuntimeError(operator, "Unknown unary operator")

BothNumbers(left, right) == left.t = "Number" /\ right.t = "Number"

\* a variant of visit_binary whose `+` turns the other operand into text when
\* one operand is a String
binary_coercing(left, operator, right) ==
    LET numbers == RuntimeError(operator, "Operands must be numbers")
        tt == operator.token_type
    IN  CASE tt = "Minus" -> IF BothNumbers(left, right) THEN Ok(F64Sub(left, right)) ELSE numbers
          [] tt = "Plus" ->
                IF BothNumbers(left, right) THEN Ok(F64Add(left, right))
                ELSE IF left.t = "String" \/ right.t = "String"
                THEN Ok(String(Display(left) \o Display(right)))
                ELSE RuntimeError(operator, "Operands must be numbers or strings")
          [] tt = "Star" -> IF BothNumbers(left, right) THEN Ok(F64Mul(left, right)) ELSE numbers
          [] tt = "Slash" -> IF BothNumbers(left, right) THEN Ok(F64Div(left, right)) ELSE numbers
          [] tt = "Greater" ->
                IF BothNumbers(left, right) THEN Ok(Boolean(F64Less(right, left))) ELSE numbers
          [] tt = "GreaterEqual" ->
                IF BothNumbers(left, right)
                THEN Ok(Boolean(F64Less(right, left) \/ F64Eq(left, right))) ELSE numbers
          [] tt = "Less" ->
                IF BothNumbers(left, right) THEN Ok(Boolean(F64Less(left, right))) ELSE numbers
          [] tt = "LessEqual" ->
                IF BothNumbers(left, right)
                THEN Ok(Boolean(F64Less(left, right) \/ F64Eq(left, right))) ELSE numbers
          [] tt = "EqualEqual" -> Ok(Boolean(ValueEq(left, right)))
          [] OTHER -> RuntimeError(operator, "Unknown binary operator")

\* visit_binary once `left` and `right` have been evaluated to values
binary(left, operator, right) ==
    LET numbers == RuntimeError(operator, "Operands must be numbers")
        tt == operator.token_type
    IN  CASE tt = "Minus" -> IF BothNumbers(left, right) THEN Ok(F64Sub(left, right)) ELSE numbers
          [] tt = "Plus" ->
                IF BothNumbers(left, right) THEN Ok(F64Add(left, right))
                ELSE IF left.t = "String" /\ right.t = "String" THEN Ok(String(left.s \o right.s))
                ELSE RuntimeError(operator, "Operands must be numbers or strings")
          [] tt = "Star" -> IF BothNumbers(left, right) THEN Ok(F64Mul(left, right)) ELSE numbers
          [] tt = "Slash" -> IF BothNumbers(left, right) THEN Ok(F64Div(left, right)) ELSE numbers
          [] tt = "Greater" ->
                IF BothNumbers(left, right) THEN Ok(Boolean(F64Less(right, left))) ELSE numbers
          [] tt = "GreaterEqual" ->
                IF BothNumbers(left, right)
                THEN Ok(Boolean(F64Less(right, left) \/ F64Eq(left, right))) ELSE numbers
          [] tt = "Less" ->
                IF BothNumbers(left, right) THEN Ok(Boolean(F64Less(left, right))) ELSE numbers
          [] tt = "LessEqual" ->
                IF BothNumbers(left, right)
                THEN Ok(Boolean(F64Less(left, right) \/ F64Eq(left, right))) ELSE numbers
          [] tt = "EqualEqual" -> Ok(Boolean(ValueEq(left, right)))
          [] OTHER -> RuntimeError(operator, "Unknown binary operator")

\* Callable::arity of a callee value
arity(callee) ==
    IF callee.t = "NativeFunction" THEN callee.arity ELSE Len(callee.declaration.params)

ArityError(paren, expected, got) ==
    RuntimeError(paren, "Expected " \o NatToString(expected) \o " arguments but got "
                            \o NatToString(got) \o " arguments")

\* a variant of call_check that leaves the argument count to the callee
call_check_callee_only(callee, args, paren) ==
    IF callee.t \notin {"NativeFunction", "Function"}
    THEN RuntimeError(paren, "Can only call functions and classes")
    ELSE OkUnit

\* visit_call's checks of the callee value and the argument count: the error
\* it returns, or Ok when it goes on to Callable::call
call_check(callee, args, paren) ==
    IF callee.t \notin {"NativeFunction", "Function"}
    THEN RuntimeError(paren, "Can only call functions and classes")
    ELSE IF Len(args) # arity(callee)
    THEN ArityError(paren, arity(callee), Len(args))
    ELSE OkUnit

\* the Environment Function::call builds: parameters bound by position
RECURSIVE bind_params(_, _, _)
bind_params(environment, params, args) ==
    IF params = <<>> THEN environment
    ELSE bind_params(define(environment, Head(params), Head(args)), Tail(params), Tail(args))

(***************************************************************************)
(* The machine.  ctl is one of                                             *)
(*   Idle            no interpret call is running                          *)
(*   Exec(stmt)      Interpreter::execute(stmt) has just been called        *)
(*   Eval(expr)      Interpreter::evaluate(expr) has just been called       *)
(*   Value(res)      an evaluate call has returned res : Result<Value>      *)
(*   Unit(res)       an execute call has returned res : Result<()>          *)
(*   Ready(..)       visit_call has the callee and every argument value     *)
(* and kont holds a frame for every method that waits for the result.      *)
(***************************************************************************)
Idle == [m |-> "idle"]
Exec(stmt) == [m |-> "execute", stmt |-> stmt]
Eval(expr) == [m |-> "evaluate", expr |-> expr]
Value(res) == [m |-> "value", res |-> res]
Unit(res) == [m |-> "unit", res |-> res]
Ready(callee, args, paren) == [m |-> "call", callee |-> callee, args |-> args, paren |-> paren]
NoResult == [none |-> TRUE]
\* no Parser, no Scanner has been made
NoParser == [none |-> TRUE]
NoScanner == [none |-> TRUE]

Top == Head(kont)
Push(frame) == <<frame>> \o kont
Replace(frame) == <<frame>> \o Tail(kont)
Evaluating(kind) == ctl.m = "evaluate" /\ ctl.expr.kind = kind
Executing(kind) == ctl.m = "execute" /\ ctl.stmt.kind = kind
Returned(m, f) == ctl.m = m /\ kont # <<>> /\ Top.f = f

(***************************************************************************)
(* Expressions: impl expr::Visitor for Interpreter (interpreter.rs:169).   *)
(***************************************************************************)
VisitLiteral ==
    /\ Evaluating("Literal")
    /\ ctl' = Value(visit_literal(ctl.expr.value))
    /\ UNCHANGED <<envs, env, kont, out, inputs, result, now, declEnv, parser, scanner>>

VisitVariable ==
    /\ Evaluating("Variable")
    /\ ctl' = Value(get(envs, env, ctl.expr.name))
    /\ UNCHANGED <<envs, env, kont, out, inputs, result, now, declEnv, parser, scanner>>

VisitGrouping ==
    /\ Evaluating("Grouping")
    /\ ctl' = Eval(ctl.expr.expr)
    /\ UNCHANGED <<envs, env, kont, out, inputs, result, now, declEnv, parser, scanner>>

VisitUnary ==
    /\ Evaluating("Unary")
    /\ kont' = Push([f |-> "visit_unary", operator |-> ctl.expr.operator])
    /\ ctl' = Eval(ctl.expr.right)
    /\ UNCHANGED <<envs, env, out, inputs, result, now, declEnv, parser, scanner>>

VisitUnaryResume ==
    /\ Returned("value", "visit_unary")
    /\ kont' = Tail(kont)
    /\ ctl' = IF ctl.res.ok THEN Value(unary(Top.operator, ctl.res.value)) ELSE ctl
    /\ UNCHANGED <<envs, env, out, inputs, result, now, declEnv, parser, scanner>>

VisitBinary ==
    /\ Evaluating("Binary")
    /\ kont' = Push([f |-> "visit_binary_left", operator |-> ctl.expr.operator,
                     right |-> ctl.expr.right])
    /\ ctl' = Eval(ctl.expr.left)
    /\ UNCHANGED <<envs, env, out, inputs, result, now, declEnv, parser, scanner>>

VisitBinaryLeft ==
    /\ Returned("value", "visit_binary_left")
    /\ IF ctl.res.ok
       THEN /\ kont' = Replace([f |-> "visit_binary_right", operator |-> Top.operator,
                                left |-> ctl.res.value])
            /\ ctl' = Eval(Top.right)
       ELSE /\ kont' = Tail(kont)
            /\ ctl' = ctl
    /\ UNCHANGED <<envs, env, out, inputs, result, now, declEnv, parser, scanner>>

VisitBinaryRight ==
    /\ Returned("value", "visit_binary_right")
    /\ kont' = Tail(kont)
    /\ ctl' = IF ctl.res.ok THEN Value(binary(Top.left, Top.operator, ctl.res.value)) ELSE ctl
    /\ UNCHANGED <<envs, env, out, inputs, result, now, declEnv, parser, scanner>>

VisitAssignment ==
    /\ Evaluating("Assignment")
    /\ kont' = Push([f |-> "visit_assignment", name |-> ctl.expr.name])
    /\ ctl' = Eval(ctl.expr.value)
    /\ UNCHANGED <<envs, env, out, inputs, result, now, declEnv, parser, scanner>>

\* a variant of visit_assignment that gives nil as the value of the assignment
VisitAssignmentResumeNil ==
    /\ Returned("value", "visit_assignment")
    /\ kont' = Tail(kont)
    /\ IF ctl.res.ok
       THEN LET done == assign(envs, env, Top.name, ctl.res.value)
            IN  /\ envs' = done.envs
                /\ ctl' = Value(IF done.res.ok THEN Ok(Nil) ELSE done.res)
       ELSE UNCHANGED <<envs, ctl>>
    /\ UNCHANGED <<env, out, inputs, result, now, declEnv, parser, scanner>>

VisitAssignmentResume ==
    /\ Returned("value", "visit_assignment")
    /\ kont' = Tail(kont)
    /\ IF ctl.res.ok
       THEN LET done == assign(envs, env, Top.name, ctl.res.value)
            IN  /\ envs' = done.envs
                /\ ctl' = Value(done.res)
       ELSE UNCHANGED <<envs, ctl>>
    /\ UNCHANGED <<env, out, inputs, result, now, declEnv, parser, scanner>>

VisitLogicOr ==
    /\ Evaluating("LogicOr")
    /\ kont' = Push([f |-> "visit_logic_or", right |-> ctl.expr.right])
    /\ ctl' = Eval(ctl.expr.left)
    /\ UNCHANGED <<envs, env, out, inputs, result, now, declEnv, parser, scanner>>

VisitLogicOrResume ==
    /\ Returned("value", "visit_logic_or")
    /\ kont' = Tail(kont)
    /\ ctl' = IF ctl.res.ok /\ ~is_truthy(ctl.res.value) THEN Eval(Top.right) ELSE ctl
    /\ UNCHANGED <<envs, env, out, inputs, result, now, declEnv, parser, scanner>>

VisitLogicAnd ==
    /\ Evaluating("LogicAnd")
    /\ kont' = Push([f |-> "visit_logic_and", right |-> ctl.expr.right])
    /\ ctl' = Eval(ctl.expr.left)
    /\ UNCHANGED <<envs, env, out, inputs, result, now, declEnv, parser, scanner>>

VisitLogicAndResume ==
    /\ Returned("value", "visit_logic_and")
    /\ kont' = Tail(kont)
    /\ ctl' = IF ctl.res.ok /\ is_truthy(ctl.res.value) THEN Eval(Top.right) ELSE ctl
    /\ UNCHANGED <<envs, env, out, inputs, result, now, declEnv, parser, scanner>>

(***************************************************************************)
(* visit_call (interpreter.rs:196-220) and Callable::call.                 *)
(***************************************************************************)
\* with `done` argument values in hand: evaluate the next one, or go on to the checks
NextArgument(callee, done, args, paren) ==
    IF Len(done) < Len(args)
    THEN /\ kont' = Replace([f |-> "visit_call_args", callee |-> callee, done |-> done,
                             args |-> args, paren |-> paren])
         /\ ctl' = Eval(args[Len(done) + 1])
    ELSE /\ kont' = Tail(kont)
         /\ ctl' = Ready(callee, done, paren)

VisitCall ==
    /\ Evaluating("Call")
    /\ kont' = Push([f |-> "visit_call_callee", args |-> ctl.expr.args,
                     paren |-> ctl.expr.paren])
    /\ ctl' = Eval(ctl.expr.callee)
    /\ UNCHANGED <<envs, env, out, inputs, result, now, declEnv, parser, scanner>>

\* a variant of visit_call that checks the callee before it evaluates the arguments
VisitCallCalleeChecked ==
    /\ Returned("value", "visit_call_callee")
    /\ IF ctl.res.ok /\ ctl.res.value.t \in {"NativeFunction", "Function"}
       THEN NextArgument(ctl.res.value, <<>>, Top.args, Top.paren)
       ELSE /\ kont' = Tail(kont)
            /\ ctl' = IF ctl.res.ok
                      THEN Value(RuntimeError(Top.paren, "Can only call functions and classes"))
                      ELSE ctl
    /\ UNCHANGED <<envs, env, out, inputs, result, now, declEnv, parser, scanner>>

VisitCallCallee ==
    /\ Returned("value", "visit_call_callee")
    /\ IF ctl.res.ok
       THEN NextArgument(ctl.res.value, <<>>, Top.args, Top.paren)
       ELSE /\ kont' = Tail(kont)
            /\ ctl' = ctl
    /\ UNCHANGED <<envs, env, out, inputs, result, now, declEnv, parser, scanner>>

VisitCallArgs ==
    /\ Returned("value", "visit_call_args")
    /\ IF ctl.res.ok
       THEN NextArgument(Top.callee, Append(Top.done, ctl.res.value), Top.args, Top.paren)
       ELSE /\ kont' = Tail(kont)
            /\ ctl' = ctl
    /\ UNCHANGED <<envs, env, out, inputs, result, now, declEnv, parser, scanner>>

\* the callee is no function, or the argument count is not its arity
VisitCallReject ==
    /\ ctl.m = "call"
    /\ IsErr(call_check(ctl.callee, ctl.args, ctl.paren))
    /\ ctl' = Value(call_check(ctl.callee, ctl.args, ctl.paren))
    /\ UNCHANGED <<envs, env, kont, out, inputs, result, now, declEnv, parser, scanner>>

\* NativeFunction::call: the one native function reads the system clock
NativeFunctionCall ==
    /\ ctl.m = "call"
    /\ call_check(ctl.callee, ctl.args, ctl.paren).ok
    /\ ctl.callee.t = "NativeFunction"
    /\ \E t \in now..MaxClock :
        /\ now' = t
        /\ ctl' = Value(Ok(Number(t)))
    /\ UNCHANGED <<envs, env, kont, out, inputs, result, declEnv, parser, scanner>>

\* Interpreter::execute_block up to the first statement: the new Environment
\* becomes current, the old one is kept in `previous`
execute_block(stmts, environment, waiting) ==
    LET id == FreshId(envs)
    IN  /\ envs' = (id :> environment) @@ envs
        /\ env' = id
        /\ kont' = <<[f |-> "execute_block", previous |-> env,
                      rest |-> IF stmts = <<>> THEN <<>> ELSE Tail(stmts)]>> \o waiting
        /\ ctl' = IF stmts = <<>> THEN Unit(OkUnit) ELSE Exec(Head(stmts))

\* a variant of call_enclosing that gives the Environment in which the
\* function was declared
call_enclosing_declaration(callee) == declEnv[callee.declaration.name.text]

\* the Environment that encloses the one Function::call makes for the body
call_enclosing(callee) == env

FunctionCall ==
    /\ ctl.m = "call"
    /\ call_check(ctl.callee, ctl.args, ctl.paren).ok
    /\ ctl.callee.t = "Function"
    /\ IF Len(ctl.args) # arity(ctl.callee)
       THEN /\ ctl' = Value(ArityError(ctl.paren, arity(ctl.callee), Len(ctl.args)))
            /\ UNCHANGED <<envs, env, kont>>
       ELSE execute_block(ctl.callee.declaration.body,
                          bind_params(EnvironmentNew(call_enclosing(ctl.callee)),
                                      ctl.callee.declaration.params, ctl.args),
                          Push([f |-> "call"]))
    /\ UNCHANGED <<out, inputs, result, now, declEnv, parser, scanner>>

\* Function::call after execute_block: `?`, then Ok(Value::Nil)
FunctionCallResume ==
    /\ Returned("unit", "call")
    /\ kont' = Tail(kont)
    /\ ctl' = IF ctl.res.ok THEN Value(Ok(Nil)) ELSE Value(ctl.res)
    /\ UNCHANGED <<envs, env, out, inputs, result, now, declEnv, parser, scanner>>

(***************************************************************************)
(* Statements: impl stmt::Visitor for Interpreter (interpreter.rs:300).    *)
(***************************************************************************)
VisitExpression ==
    /\ Executing("Expression")
    /\ kont' = Push([f |-> "visit_expression"])
    /\ ctl' = Eval(ctl.stmt.expr)
    /\ UNCHANGED <<envs, env, out, inputs, result, now, declEnv, parser, scanner>>

VisitExpressionResume ==
    /\ Returned("value", "visit_expression")
    /\ kont' = Tail(kont)
    /\ ctl' = IF ctl.res.ok THEN Unit(OkUnit) ELSE Unit(ctl.res)
    /\ UNCHANGED <<envs, env, out, inputs, result, now, declEnv, parser, scanner>>

VisitPrint ==
    /\ Executing("Print")
    /\ kont' = Push([f |-> "visit_print"])
    /\ ctl' = Eval(ctl.stmt.expr)
    /\ UNCHANGED <<envs, env, out, inputs, result, now, declEnv, parser, scanner>>

VisitPrintResume ==
    /\ Returned("value", "visit_print")
    /\ kont' = Tail(kont)
    /\ IF ctl.res.ok
       THEN /\ out' = Append(out, Display(ctl.res.value))
            /\ ctl' = Unit(OkUnit)
       ELSE /\ out' = out
            /\ ctl' = Unit(ctl.res)
    /\ UNCHANGED <<envs, env, inputs, result, now, declEnv, parser, scanner>>

VisitFunctionDeclaration ==
    /\ Executing("FunctionDeclaration")
    /\ envs' = [envs EXCEPT ![env] = define(@, ctl.stmt.name, Function(ctl.stmt))]
    /\ declEnv' = (ctl.stmt.name.text :> env) @@ declEnv
    /\ ctl' = Unit(OkUnit)
    /\ UNCHANGED <<env, kont, out, inputs, result, now, parser, scanner>>

VisitVariableDeclaration ==
    /\ Executing("VariableDeclaration")
    /\ IF ctl.stmt.initializer # <<>>
       THEN /\ kont' = Push([f |-> "visit_variable_declaration", name |-> ctl.stmt.name])
            /\ ctl' = Eval(ctl.stmt.initializer[1])
            /\ envs' = envs
       ELSE /\ envs' = [envs EXCEPT ![env] = define(@, ctl.stmt.name, Nil)]
            /\ ctl' = Unit(OkUnit)
            /\ kont' = kont
    /\ UNCHANGED <<env, out, inputs, result, now, declEnv, parser, scanner>>

\* a variant of visit_variable_declaration that writes an existing binding of the
\* name, wherever on the chain it is, before it makes a new one
VisitVariableDeclarationAssigns ==
    /\ Returned("value", "visit_variable_declaration")
    /\ kont' = Tail(kont)
    /\ IF ctl.res.ok
       THEN /\ envs' = IF get(envs, env, Top.name).ok
                       THEN assign(envs, env, Top.name, ctl.res.value).envs
                       ELSE [envs EXCEPT ![env] = define(@, Top.name, ctl.res.value)]
            /\ ctl' = Unit(OkUnit)
       ELSE /\ envs' = envs
            /\ ctl' = Unit(ctl.res)
    /\ UNCHANGED <<env, out, inputs, result, now, declEnv, parser, scanner>>

VisitVariableDeclarationResume ==
    /\ Returned("value", "visit_variable_declaration")
    /\ kont' = Tail(kont)
    /\ IF ctl.res.ok
       THEN /\ envs' = [envs EXCEPT ![env] = define(@, Top.name, ctl.res.value)]
            /\ ctl' = Unit(OkUnit)
       ELSE /\ envs' = envs
            /\ ctl' = Unit(ctl.res)
    /\ UNCHANGED <<env, out, inputs, result, now, declEnv, parser, scanner>>

VisitBlock ==
    /\ Executing("Block")
    /\ execute_block(ctl.stmt.stmts, EnvironmentNew(env), kont)
    /\ UNCHANGED <<out, inputs, result, now, declEnv, parser, scanner>>

\* a variant of execute_block that returns a failed statement's error at once,
\* before it puts the old Environment back
ExecuteBlockResumeEarlyReturn ==
    /\ Returned("unit", "execute_block")
    /\ IF ctl.res.ok /\ Top.rest # <<>>
       THEN /\ ctl' = Exec(Head(Top.rest))
            /\ kont' = Replace([Top EXCEPT !.rest = Tail(@)])
            /\ UNCHANGED <<envs, env>>
       ELSE /\ env' = IF ctl.res.ok THEN Top.previous ELSE env
            /\ kont' = Tail(kont)
            /\ envs' = Collect(envs, Roots(env', Tail(kont)))
            /\ ctl' = ctl
    /\ UNCHANGED <<out, inputs, result, now, declEnv, parser, scanner>>

\* Interpreter::execute_block after a statement: the next one, or, when the
\* list is done or the statement failed, the old Environment back and the result
ExecuteBlockResume ==
    /\ Returned("unit", "execute_block")
    /\ IF ctl.res.ok /\ Top.rest # <<>>
       THEN /\ ctl' = Exec(Head(Top.rest))
            /\ kont' = Replace([Top EXCEPT !.rest = Tail(@)])
            /\ UNCHANGED <<envs, env>>
       ELSE /\ env' = Top.previous
            /\ kont' = Tail(kont)
            /\ envs' = Collect(envs, Roots(Top.previous, Tail(kont)))
            /\ ctl' = ctl
    /\ UNCHANGED <<out, inputs, result, now, declEnv, parser, scanner>>

VisitIf ==
    /\ Executing("If")
    /\ kont' = Push([f |-> "visit_if", then_branch |-> ctl.stmt.then_branch,
                     else_branch |-> ctl.stmt.else_branch])
    /\ ctl' = Eval(ctl.stmt.condition)
    /\ UNCHANGED <<envs, env, out, inputs, result, now, declEnv, parser, scanner>>

VisitIfResume ==
    /\ Returned("value", "visit_if")
    /\ kont' = Tail(kont)
    /\ ctl' = IF ~ctl.res.ok THEN Unit(ctl.res)
              ELSE IF is_truthy(ctl.res.value) THEN Exec(Top.then_branch)
              ELSE IF Top.else_branch # <<>> THEN Exec(Top.else_branch[1])
              ELSE Unit(OkUnit)
    /\ UNCHANGED <<envs, env, out, inputs, result, now, declEnv, parser, scanner>>

VisitWhile ==
    /\ Executing("While")
    /\ kont' = Push([f |-> "visit_while", condition |-> ctl.stmt.condition,
                     body |-> ctl.stmt.body])
    /\ ctl' = Eval(ctl.stmt.condition)
    /\ UNCHANGED <<envs, env, out, inputs, result, now, declEnv, parser, scanner>>

\* visit_while with the condition evaluated
VisitWhileCondition ==
    /\ Returned("value", "visit_while")
    /\ IF ctl.res.ok /\ is_truthy(ctl.res.value)
       THEN /\ ctl' = Exec(Top.body)
            /\ kont' = kont
       ELSE /\ ctl' = IF ctl.res.ok THEN Unit(OkUnit) ELSE Unit(ctl.res)
            /\ kont' = Tail(kont)
    /\ UNCHANGED <<envs, env, out, inputs, result, now, declEnv, parser, scanner>>

\* visit_while with the body executed
VisitWhileBody ==
    /\ Returned("unit", "visit_while")
    /\ IF ctl.res.ok
       THEN /\ ctl' = Eval(Top.condition)
            /\ kont' = kont
       ELSE /\ ctl' = ctl
            /\ kont' = Tail(kont)
    /\ UNCHANGED <<envs, env, out, inputs, result, now, declEnv, parser, scanner>>

(***************************************************************************)
(* visit_return.  stmt::Visitor declares it (stmt.rs:49) and Stmt::accept  *)
(* calls it (stmt.rs:72); the Interpreter's own method is modelled as the  *)
(* early-exit signal the design describes: the value is evaluated and      *)
(* travels as a result that is not Ok, which every `?` hands outward.      *)
(***************************************************************************)
ReturnSignal(keyword, value) ==
    [ok |-> FALSE, error |-> "Return", line |-> keyword.line, value |-> value]

VisitReturn ==
    /\ Executing("Return")
    /\ IF ctl.stmt.value # <<>>
       THEN /\ kont' = Push([f |-> "visit_return", keyword |-> ctl.stmt.keyword])
            /\ ctl' = Eval(ctl.stmt.value[1])
       ELSE /\ ctl' = Unit(ReturnSignal(ctl.stmt.keyword, Nil))
            /\ kont' = kont
    /\ UNCHANGED <<envs, env, out, inputs, result, now, declEnv, parser, scanner>>

VisitReturnResume ==
    /\ Returned("value", "visit_return")
    /\ kont' = Tail(kont)
    /\ ctl' = IF ctl.res.ok THEN Unit(ReturnSignal(Top.keyword, ctl.res.value))
              ELSE Unit(ctl.res)
    /\ UNCHANGED <<envs, env, out, inputs, result, now, declEnv, parser, scanner>>

(***************************************************************************)
(* Parser (parser.rs).  A parse method is an operator of the token vector  *)
(* and the cursor `current` (0-based as in the source, so tokens[current]  *)
(* of the source is tokens[current + 1] here); it gives                    *)
(*   Parsed(node, current)   Ok(node), with the cursor after the call      *)
(*   a ParseError            Err(Error::ParseError { line, msg })           *)
(*   Panic                   the thread panicked                            *)
(* The macros match_next! and consume_next! are operators too.             *)
(***************************************************************************)
Parsed(node, current) == [ok |-> TRUE, node |-> node, current |-> current]
ParseError(line, msg, current) ==
    [ok |-> FALSE, error |-> "ParseError", line |-> line, msg |-> msg, current |-> current]
Panic(current) == [ok |-> FALSE, error |-> "panic", current |-> current]

peek(tokens, current) == tokens[current + 1]
at_end(tokens, current) == peek(tokens, current).token_type = "Eof"
\* tokens[self.current - 1]; callers look at `current = 0` before they use it
previous(tokens, current) == tokens[current]
\* the cursor after advance(); the token advance() returns is previous() there
advance(tokens, current) == IF ~at_end(tokens, current) THEN current + 1 ELSE current

\* Parser::error reads previous().line: with current = 0 the index current - 1
\* underflows (a panic in a debug build) or is out of bounds (a panic in a
\* release build)
error(tokens, current, msg) ==
    IF current = 0 THEN Panic(current)
    ELSE ParseError(previous(tokens, current).line, msg, current)

match_next(tokens, current, types) == peek(tokens, current).token_type \in types

consume_next(tokens, current, types, msg) ==
    IF match_next(tokens, current, types)
    THEN Parsed(previous(tokens, advance(tokens, current)), advance(tokens, current))
    ELSE error(tokens, current, msg)

\* the `?` of the source: the rest of the method runs with the Ok value, an
\* Err (or the panic) leaves the method at once
Try(res, Rest(_)) == IF res.ok THEN Rest(res) ELSE res

RECURSIVE parse_expression(_, _)

parse_primary(tokens, current) ==
    LET token_type == peek(tokens, current).token_type
        after == advance(tokens, current)
    IN  IF token_type \in {"True", "False", "Number", "String", "Nil"}
        THEN Parsed(Literal(previous(tokens, after)), after)
        ELSE IF token_type = "Identifier"
        THEN Parsed(Variable(previous(tokens, after)), after)
        ELSE IF token_type = "LeftParen"
        THEN Try(parse_expression(tokens, after), LAMBDA expr :
             Try(consume_next(tokens, expr.current, {"RightParen"},
                              "Expect ')' after expression"), LAMBDA close :
             Parsed(Grouping(expr.node), close.current)))
        ELSE error(tokens, current, "Expect expression found: " \o token_type)

RECURSIVE parse_unary(_, _)
parse_unary(tokens, current) ==
    IF match_next(tokens, current, {"Bang", "Minus"})
    THEN Try(parse_unary(tokens, advance(tokens, current)), LAMBDA right :
         Parsed(Unary(peek(tokens, current), right.node), right.current))
    ELSE parse_primary(tokens, current)

\* the while loop of parse_factor, with `expr` parsed so far
RECURSIVE parse_factor_loop(_, _, _)
parse_factor_loop(tokens, expr, current) ==
    IF match_next(tokens, current, {"Slash", "Star"})
    THEN Try(parse_unary(tokens, advance(tokens, current)), LAMBDA right :
         parse_factor_loop(tokens, Binary(expr, peek(tokens, current), right.node),
                           right.current))
    ELSE Parsed(expr, current)

parse_factor(tokens, current) ==
    Try(parse_unary(tokens, current), LAMBDA expr :
    parse_factor_loop(tokens, expr.node, expr.current))

RECURSIVE parse_term_loop(_, _, _)
parse_term_loop(tokens, expr, current) ==
    IF match_next(tokens, current, {"Minus", "Plus"})
    THEN Try(parse_factor(tokens, advance(tokens, current)), LAMBDA right :
         parse_term_loop(tokens, Binary(expr, peek(tokens, current), right.node),
                         right.current))
    ELSE Parsed(expr, current)

parse_term(tokens, current) ==
    Try(parse_factor(tokens, current), LAMBDA expr :
    parse_term_loop(tokens, expr.node, expr.current))

RECURSIVE parse_comparison_loop(_, _, _)
parse_comparison_loop(tokens, expr, current) ==
    IF match_next(tokens, current, {"Greater", "GreaterEqual", "Less", "LessEqual"})
    THEN Try(parse_term(tokens, advance(tokens, current)), LAMBDA right :
         parse_comparison_loop(tokens, Binary(expr, peek(tokens, current), right.node),
                               right.current))
    ELSE Parsed(expr, current)

parse_comparison(tokens, current) ==
    Try(parse_term(tokens, current), LAMBDA expr :
    parse_comparison_loop(tokens, expr.node, expr.current))

RECURSIVE parse_equality_loop(_, _, _)
parse_equality_loop(tokens, expr, current) ==
    IF match_next(tokens, current, {"BangEqual", "EqualEqual"})
    THEN Try(parse_comparison(tokens, advance(tokens, current)), LAMBDA right :
         parse_equality_loop(tokens, Binary(expr, peek(tokens, current), right.node),
                             right.current))
    ELSE Parsed(expr, current)

parse_equality(tokens, current) ==
    Try(parse_comparison(tokens, current), LAMBDA expr :
    parse_equality_loop(tokens, expr.node, expr.current))

RECURSIVE parse_logic_and_loop(_, _, _)
parse_logic_and_loop(tokens, expr, current) ==
    IF match_next(tokens, current, {"And"})
    THEN Try(parse_equality(tokens, advance(tokens, current)), LAMBDA right :
         parse_logic_and_loop(tokens, LogicAnd(expr, peek(tokens, current), right.node),
                              right.current))
    ELSE Parsed(expr, current)

parse_logic_and(tokens, current) ==
    Try(parse_equality(tokens, current), LAMBDA expr :
    parse_logic_and_loop(tokens, expr.node, expr.current))

RECURSIVE parse_logic_or_loop(_, _, _)
parse_logic_or_loop(tokens, expr, current) ==
    IF match_next(tokens, current, {"Or"})
    THEN Try(parse_logic_and(tokens, advance(tokens, current)), LAMBDA right :
         parse_logic_or_loop(tokens, LogicOr(expr, peek(tokens, current), right.node),
                             right.current))
    ELSE Parsed(expr, current)

parse_logic_or(tokens, current) ==
    Try(parse_logic_and(tokens, current), LAMBDA expr :
    parse_logic_or_loop(tokens, expr.node, expr.current))

RECURSIVE parse_assignment(_, _)
parse_assignment(tokens, current) ==
    Try(parse_logic_or(tokens, current), LAMBDA expr :
    IF match_next(tokens, expr.current, {"Equal"})
    THEN Try(parse_assignment(tokens, advance(tokens, expr.current)), LAMBDA value :
         IF expr.node.kind = "Variable"
         THEN Parsed(Assignment(expr.node.name, value.node), value.current)
         ELSE error(tokens, value.current, "Invalid assignment target"))
    ELSE expr)

parse_expression(tokens, current) == parse_assignment(tokens, current)

parse_expression_statement(tokens, current) ==
    Try(parse_expression(tokens, current), LAMBDA expr :
    Try(consume_next(tokens, expr.current, {"Semicolon"},
                     "Expect ; after expression statement"), LAMBDA semicolon :
    Parsed(ExpressionStmt(expr.node), semicolon.current)))

parse_print_statement(tokens, current) ==
    Try(parse_expression(tokens, current), LAMBDA expr :
    Try(consume_next(tokens, expr.current, {"Semicolon"},
                     "Expect ; after print statement"), LAMBDA semicolon :
    Parsed(PrintStmt(expr.node), semicolon.current)))

parse_variable_declaration(tokens, current) ==
    Try(consume_next(tokens, current, {"Identifier"}, "Expect variable name"), LAMBDA name :
    IF peek(tokens, name.current).token_type = "Equal"
    THEN Try(parse_expression(tokens, advance(tokens, name.current)), LAMBDA initializer :
         Try(consume_next(tokens, initializer.current, {"Semicolon"},
                          "Expect ';' after expression"), LAMBDA semicolon :
         Parsed(VariableDeclarationStmt(name.node, <<initializer.node>>), semicolon.current)))
    ELSE IF peek(tokens, name.current).token_type = "Semicolon"
    THEN Parsed(VariableDeclarationStmt(name.node, <<>>), advance(tokens, name.current))
    ELSE error(tokens, name.current, "Expect ; after variable declaration"))

RECURSIVE parse_declaration_statement(_, _)
RECURSIVE parse_statement(_, _)

\* the while loop of parse_block, with `stmts` parsed so far
RECURSIVE parse_block_loop(_, _, _)
parse_block_loop(tokens, stmts, current) ==
    IF peek(tokens, current).token_type # "RightBrace" /\ ~at_end(tokens, current)
    THEN Try(parse_declaration_statement(tokens, current), LAMBDA stmt :
         parse_block_loop(tokens, Append(stmts, stmt.node), stmt.current))
    ELSE Parsed(stmts, current)

parse_block(tokens, current) ==
    Try(parse_block_loop(tokens, <<>>, current), LAMBDA stmts :
    Try(consume_next(tokens, stmts.current, {"RightBrace"}, "Expect } after block"),
        LAMBDA close :
    Parsed(BlockStmt(stmts.node), close.current)))

parse_if_statement(tokens, current) ==
    Try(consume_next(tokens, current, {"LeftParen"}, "Expect '(' after 'if'."), LAMBDA open :
    Try(parse_expression(tokens, open.current), LAMBDA condition :
    Try(consume_next(tokens, condition.current, {"RightParen"},
                     "Expect ')' after if condition."), LAMBDA close :
    Try(parse_statement(tokens, close.current), LAMBDA then_branch :
    IF match_next(tokens, then_branch.current, {"Else"})
    THEN Try(parse_statement(tokens, advance(tokens, then_branch.current)),
             LAMBDA else_branch :
         Parsed(IfStmt(condition.node, then_branch.node, <<else_branch.node>>),
                else_branch.current))
    ELSE Parsed(IfStmt(condition.node, then_branch.node, <<>>), then_branch.current)))))

parse_while_loop(tokens, current) ==
    Try(consume_next(tokens, current, {"LeftParen"}, "Expect '(' after 'if'."), LAMBDA open :
    Try(parse_expression(tokens, open.current), LAMBDA condition :
    Try(consume_next(tokens, condition.current, {"RightParen"},
                     "Expect ')' after if condition."), LAMBDA close :
    Try(parse_statement(tokens, close.current), LAMBDA body :
    Parsed(WhileStmt(condition.node, body.node), body.current)))))

\* the first clause of a for statement: Parsed(Some(stmt) or None, current)
for_initializer(tokens, current) ==
    IF peek(tokens, current).token_type = "Var"
    THEN Try(parse_variable_declaration(tokens, advance(tokens, current)),
             LAMBDA declaration :
         Parsed(<<declaration.node>>, declaration.current))
    ELSE IF peek(tokens, current).token_type = "Semicolon"
    THEN Parsed(<<>>, advance(tokens, current))
    ELSE Try(parse_expression_statement(tokens, current), LAMBDA statement :
         Parsed(<<statement.node>>, statement.current))

\* the second clause: the condition, literal true when there is none
for_condition(tokens, current) ==
    IF peek(tokens, current).token_type = "Semicolon"
    THEN Parsed(Literal(Token("True", "true", peek(tokens, current).line)), current)
    ELSE parse_expression(tokens, current)

\* the third clause: Parsed(Some(expr) or None, current)
for_increment(tokens, current) ==
    IF peek(tokens, current).token_type = "RightParen" THEN Parsed(<<>>, current)
    ELSE Try(parse_expression(tokens, current), LAMBDA expr :
         Parsed(<<expr.node>>, expr.current))

\* what parse_for_statement builds from the clauses and the body
for_desugar(initializer, condition, increment, body) ==
    LET with_increment ==
            IF increment # <<>>
            THEN BlockStmt(<<body, ExpressionStmt(increment[1])>>)
            ELSE body
        loop == WhileStmt(condition, with_increment)
    IN  IF initializer # <<>> THEN BlockStmt(<<initializer[1], loop>>) ELSE loop

parse_for_statement(tokens, current) ==
    Try(consume_next(tokens, current, {"LeftParen"}, "Expect '(' after 'for'."), LAMBDA open :
    Try(for_initializer(tokens, open.current), LAMBDA initializer :
    Try(for_condition(tokens, initializer.current), LAMBDA condition :
    Try(consume_next(tokens, condition.current, {"Semicolon"},
                     "Expect ';' after loop condition."), LAMBDA semicolon :
    Try(for_increment(tokens, semicolon.current), LAMBDA increment :
    Try(consume_next(tokens, increment.current, {"RightParen"},
                     "Expect ')' after for clauses."), LAMBDA close :
    Try(parse_statement(tokens, close.current), LAMBDA body :
    Parsed(for_desugar(initializer.node, condition.node, increment.node, body.node),
           body.current))))))))

parse_statement(tokens, current) ==
    IF match_next(tokens, current, {"For"})
    THEN parse_for_statement(tokens, advance(tokens, current))
    ELSE IF match_next(tokens, current, {"If"})
    THEN parse_if_statement(tokens, advance(tokens, current))
    ELSE IF match_next(tokens, current, {"While"})
    THEN parse_while_loop(tokens, advance(tokens, current))
    ELSE IF match_next(tokens, current, {"Print"})
    THEN parse_print_statement(tokens, advance(tokens, current))
    ELSE IF match_next(tokens, current, {"LeftBrace"})
    THEN parse_block(tokens, advance(tokens, current))
    ELSE parse_expression_statement(tokens, current)

parse_declaration_statement(tokens, current) ==
    IF match_next(tokens, current, {"Var"})
    THEN parse_variable_declaration(tokens, advance(tokens, current))
    ELSE parse_statement(tokens, current)

\* Parser::new, with the locals of Parser::parse: the statements pushed so far
\* and what parse has returned
ParserNew(tokens) ==
    [tokens |-> tokens, current |-> 0, statements |-> <<>>, result |-> NoResult]

\* what the while loop of Parser::parse does with `stmt`, the outcome of
\* parse_declaration_statement: statements.push(stmt?)
parse_push(p, stmt) ==
    IF stmt.ok
    THEN [p EXCEPT !.current = stmt.current, !.statements = Append(@, stmt.node)]
    ELSE [p EXCEPT !.current = stmt.current,
                   !.result = IF stmt.error = "panic" THEN [ok |-> FALSE, error |-> "panic"]
                              ELSE [ok |-> FALSE, error |-> "ParseError",
                                    line |-> stmt.line, msg |-> stmt.msg]]

\* one pass of the while loop of Parser::parse
parse_iteration(p) == parse_push(p, parse_declaration_statement(p.tokens, p.current))

\* Parser::parse on a new Parser: Ok(statements), the ParseError or the panic
RECURSIVE parse_loop(_)
parse_loop(p) ==
    IF p.result # NoResult THEN p.result
    ELSE IF ~at_end(p.tokens, p.current) THEN parse_loop(parse_iteration(p))
    ELSE Ok(p.statements)

parse(tokens) == parse_loop(ParserNew(tokens))

(***************************************************************************)
(* Scanner (scanner.rs).  The source is the Vec<char>, a sequence of        *)
(* one-character strings; start and current are 0-based as in the source.  *)
(* A method of the Scanner is an operator from the Scanner before the call *)
(* to the Scanner after it.  Besides the fields of the struct the record    *)
(* holds what eprintln! has written (stderr) and how scan_tokens ended      *)
(* (result): Ok with the tokens it returns, or the panic.                   *)
(***************************************************************************)
\* scanner.rs has a Token of its own: token_type, lexeme, literal, line
ScannerToken(token_type, lexeme, literal, line) ==
    [token_type |-> token_type, lexeme |-> lexeme, literal |-> literal, line |-> line]

keywords ==
    [ and |-> "And", class |-> "Class", else |-> "Else", false |-> "False", for |-> "For",
      fun |-> "Fun", if |-> "If", nil |-> "Nil", or |-> "Or", print |-> "Print",
      return |-> "Return", super |-> "Super", this |-> "This", true |-> "True",
      var |-> "Var", while |-> "While" ]

\* Scanner::new: Default gives 0 for start, current and line
ScannerNew(source) ==
    [source |-> source, tokens |-> <<>>, start |-> 0, current |-> 0, line |-> 0,
     stderr |-> <<>>, result |-> NoResult]

is_ascii_digit(c) == c \in {"0", "1", "2", "3", "4", "5", "6", "7", "8", "9"}
is_alphabetic(c) ==
    c \in {"a", "b", "c", "d", "e", "f", "g", "h", "i", "j", "k", "l", "m",
           "n", "o", "p", "q", "r", "s", "t", "u", "v", "w", "x", "y", "z",
           "A", "B", "C", "D", "E", "F", "G", "H", "I", "J", "K", "L", "M",
           "N", "O", "P", "Q", "R", "S", "T", "U", "V", "W", "X", "Y", "Z"}
is_alphanumeric(c) == is_alphabetic(c) \/ is_ascii_digit(c)

\* chars.iter().collect::<String>()
RECURSIVE CollectString(_)
CollectString(chars) ==
    IF chars = <<>> THEN "" ELSE Head(chars) \o CollectString(Tail(chars))

\* &self.source[from..to]
Slice(s, from, to) == SubSeq(s.source, from + 1, to)

scanner_at_end(s) == s.current >= Len(s.source)

\* the char '\0' that peek and peek_next give at the end of the source
NUL == "NUL"

scanner_peek(s) == IF scanner_at_end(s) THEN NUL ELSE s.source[s.current + 1]

peek_next(s) == IF s.current + 1 >= Len(s.source) THEN NUL ELSE s.source[s.current + 2]

\* the Scanner after advance(); the char it returns is source[current] before
scanner_advance(s) == [s EXCEPT !.current = @ + 1]

\* whether match_char(expected) returns true
match_char_matches(s, expected) == ~scanner_at_end(s) /\ s.source[s.current + 1] = expected

\* the Scanner after match_char(expected)
match_char(s, expected) ==
    IF match_char_matches(s, expected) THEN [s EXCEPT !.current = @ + 1] ELSE s

add_token(s, token_type, literal) ==
    [s EXCEPT !.tokens = Append(@, ScannerToken(token_type,
                                                CollectString(Slice(s, s.start, s.current)),
                                                literal, s.line))]

\* add_token(two) when the next char is '=' (which is consumed), else add_token(one)
add_token_equal(s, two, one) ==
    IF match_char_matches(s, "=")
    THEN add_token(match_char(s, "="), two, <<>>)
    ELSE add_token(match_char(s, "="), one, <<>>)

\* the while loop of the `//` arm of scan_token
RECURSIVE comment_loop(_)
comment_loop(s) ==
    IF scanner_peek(s) # "\n" /\ ~scanner_at_end(s) THEN comment_loop(scanner_advance(s))
    ELSE s

\* the while loop of string()
RECURSIVE string_loop(_)
string_loop(s) ==
    IF scanner_peek(s) # "\"" /\ ~scanner_at_end(s)
    THEN string_loop(scanner_advance(
            IF scanner_peek(s) = "\n" THEN [s EXCEPT !.line = @ + 1] ELSE s))
    ELSE s

\* string() after its loop: at the end of the source it writes to stderr and
\* returns, with no token added
string_close(s) ==
    IF scanner_at_end(s)
    THEN [s EXCEPT !.stderr = Append(@, "Unterminated string")]
    ELSE add_token(scanner_advance(s), "String",
                   <<CollectString(Slice(s, s.start + 1, s.current))>>)

string(s) == string_close(string_loop(s))

\* while self.peek().is_ascii_digit() { self.advance(); }
RECURSIVE digits_loop(_)
digits_loop(s) ==
    IF is_ascii_digit(scanner_peek(s)) THEN digits_loop(scanner_advance(s)) ELSE s

\* number() after its first loop: the fraction
number_fraction(s) ==
    IF scanner_peek(s) = "." /\ is_ascii_digit(peek_next(s))
    THEN digits_loop(scanner_advance(s))
    ELSE s

\* number() after the fraction: the literal is the text, not a number
number_token(s) == add_token(s, "Number", <<CollectString(Slice(s, s.start, s.current))>>)

number(s) == number_token(number_fraction(digits_loop(s)))

RECURSIVE identifier_loop(_)
identifier_loop(s) ==
    IF is_alphanumeric(scanner_peek(s)) THEN identifier_loop(scanner_advance(s)) ELSE s

\* the text of the lexeme, as identifier() looks it up in keywords
identifier_type(text) == IF text \in DOMAIN keywords THEN keywords[text] ELSE "Identifier"

identifier_token(s) ==
    add_token(s, identifier_type(CollectString(Slice(s, s.start, s.current))), <<>>)

identifier(s) == identifier_token(identifier_loop(s))

\* the arms of the match in scan_token, with c already taken by advance()
scan_match(s, c) ==
    CASE c = "(" -> add_token(s, "LeftParen", <<>>)
      [] c = ")" -> add_token(s, "RightParen", <<>>)
      [] c = "{" -> add_token(s, "LeftBrace", <<>>)
      [] c = "}" -> add_token(s, "RightBrace", <<>>)
      [] c = "," -> add_token(s, "Comma", <<>>)
      [] c = "." -> add_token(s, "Dot", <<>>)
      [] c = "-" -> add_token(s, "Minus", <<>>)
      [] c = "+" -> add_token(s, "Plus", <<>>)
      [] c = ";" -> add_token(s, "Semicolon", <<>>)
      [] c = "*" -> add_token(s, "Star", <<>>)
      [] c = "!" -> add_token_equal(s, "BangEqual", "Bang")
      [] c = "=" -> add_token_equal(s, "EqualEqual", "Equal")
      [] c = ">" -> add_token_equal(s, "GreaterEqual", "Greater")
      [] c = "<" -> add_token_equal(s, "LessEqual", "Less")
      [] c = "/" -> IF match_char_matches(s, "/") THEN comment_loop(match_char(s, "/"))
                    ELSE add_token(match_char(s, "/"), "Slash", <<>>)
      [] c = "\"" -> string(s)
      [] is_ascii_digit(c) -> number(s)
      [] is_alphabetic(c) -> identifier(s)
      [] c \in {" ", "\r", "\t"} -> s
      [] c = "\n" -> [s EXCEPT !.line = @ + 1]
      [] OTHER -> [s EXCEPT !.result = [ok |-> FALSE, error |-> "panic"]]

scan_token(s) == scan_match(scanner_advance(s), s.source[s.current + 1])

\* the end of scan_tokens: the Eof token is pushed and &self.tokens returned
scan_tokens_return(s) ==
    [s EXCEPT !.tokens = Append(@, ScannerToken("Eof", "", <<>>, s.line)),
              !.result = Ok(Append(s.tokens, ScannerToken("Eof", "", <<>>, s.line)))]

\* scan_tokens on Scanner s: the Scanner when it has returned or panicked
RECURSIVE scan_tokens(_)
scan_tokens(s) ==
    IF s.result # NoResult THEN s
    ELSE IF ~scanner_at_end(s) THEN scan_tokens(scan_token([s EXCEPT !.start = s.current]))
    ELSE scan_tokens_return(s)

(***************************************************************************)
(* The statement lists given to the interpreter.  Each is the syntax tree  *)
(* of the program text in the comment above it.                            *)
(***************************************************************************)
Id(text) == Token("Identifier", text, 1)
Op(token_type, text) == Token(token_type, text, 1)
Var(text) == Variable(Id(text))
Num(n) == Literal(LiteralToken("Number", Number(n), NatToString(n), 1))
Str(text) == Literal(LiteralToken("String", String(text), text, 1))
NilLit == Literal(Token("Nil", "nil", 1))
TrueLit == Literal(Token("True", "true", 1))
FalseLit == Literal(Token("False", "false", 1))
Paren == Token("RightParen", ")", 1)
ReturnKw == Token("Return", "return", 1)
Set(text, value) == ExpressionStmt(Assignment(Id(text), value))
VarDecl(text, value) == VariableDeclarationStmt(Id(text), <<value>>)
CallOf(callee, args) == Call(callee, Paren, args)
Bang(right) == Unary(Op("Bang", "!"), right)
Plus(left, right) == Binary(left, Op("Plus", "+"), right)
Less(left, right) == Binary(left, Op("Less", "<"), right)
Or(left, right) == LogicOr(left, Op("Or", "or"), right)
And(left, right) == LogicAnd(left, Op("And", "and"), right)

Kw(token_type, text) == Token(token_type, text, 1)
NumTok(n) == LiteralToken("Number", Number(n), NatToString(n), 1)
StrTok(text) == LiteralToken("String", String(text), text, 1)
Eof == Token("Eof", "", 1)
LeftParenTok == Kw("LeftParen", "(")
RightParenTok == Kw("RightParen", ")")
LeftBraceTok == Kw("LeftBrace", "{")
RightBraceTok == Kw("RightBrace", "}")
SemicolonTok == Kw("Semicolon", ";")
EqualTok == Kw("Equal", "=")
PrintTok == Kw("Print", "print")
VarTok == Kw("Var", "var")
ForTok == Kw("For", "for")

\* for (var i = 0; i < 3; i = i + 1) print i; print i;
TokensFor ==
    << ForTok, LeftParenTok, VarTok, Id("i"), EqualTok, NumTok(0), SemicolonTok,
       Id("i"), Op("Less", "<"), NumTok(3), SemicolonTok,
       Id("i"), EqualTok, Id("i"), Op("Plus", "+"), NumTok(1), RightParenTok,
       PrintTok, Id("i"), SemicolonTok,
       PrintTok, Id("i"), SemicolonTok, Eof >>

\* var log = "";
\* for (log = log + "a"; (log = log + "c") == log and log == "ac"; log = log + "i")
\*     log = log + "b";
\* print log;
TokensForOrder ==
    << VarTok, Id("log"), EqualTok, StrTok(""), SemicolonTok,
       ForTok, LeftParenTok,
       Id("log"), EqualTok, Id("log"), Op("Plus", "+"), StrTok("a"), SemicolonTok,
       LeftParenTok, Id("log"), EqualTok, Id("log"), Op("Plus", "+"), StrTok("c"),
       RightParenTok, Op("EqualEqual", "=="), Id("log"), Kw("And", "and"),
       Id("log"), Op("EqualEqual", "=="), StrTok("ac"), SemicolonTok,
       Id("log"), EqualTok, Id("log"), Op("Plus", "+"), StrTok("i"), RightParenTok,
       Id("log"), EqualTok, Id("log"), Op("Plus", "+"), StrTok("b"), SemicolonTok,
       PrintTok, Id("log"), SemicolonTok, Eof >>

\* var j = 0; for (; j < 2;) { print j; j = j + 1; } print j;
\* for (;;) { print "x"; nope; }
TokensForClauses ==
    << VarTok, Id("j"), EqualTok, NumTok(0), SemicolonTok,
       ForTok, LeftParenTok, SemicolonTok, Id("j"), Op("Less", "<"), NumTok(2), SemicolonTok,
       RightParenTok, LeftBraceTok, PrintTok, Id("j"), SemicolonTok,
       Id("j"), EqualTok, Id("j"), Op("Plus", "+"), NumTok(1), SemicolonTok, RightBraceTok,
       PrintTok, Id("j"), SemicolonTok,
       ForTok, LeftParenTok, SemicolonTok, SemicolonTok, RightParenTok,
       LeftBraceTok, PrintTok, StrTok("x"), SemicolonTok, Id("nope"), SemicolonTok,
       RightBraceTok, Eof >>

\* for (; clock;) { print "body"; nope; }
TokensForFunction ==
    << ForTok, LeftParenTok, SemicolonTok, Id("clock"), SemicolonTok, RightParenTok,
       LeftBraceTok, PrintTok, StrTok("body"), SemicolonTok, Id("nope"), SemicolonTok,
       RightBraceTok, Eof >>

\* f(1, 2);
TokensCall ==
    << Id("f"), LeftParenTok, NumTok(1), Kw("Comma", ","), NumTok(2), RightParenTok,
       SemicolonTok, Eof >>

\* print 1 != 2;
TokensNotEqual ==
    << PrintTok, NumTok(1), Op("BangEqual", "!="), NumTok(2), SemicolonTok, Eof >>

\* var a = 1; var b = 2; print a = b = 3; print a; print b; a = b = nope;
TokensChained ==
    << VarTok, Id("a"), EqualTok, NumTok(1), SemicolonTok,
       VarTok, Id("b"), EqualTok, NumTok(2), SemicolonTok,
       PrintTok, Id("a"), EqualTok, Id("b"), EqualTok, NumTok(3), SemicolonTok,
       PrintTok, Id("a"), SemicolonTok,
       PrintTok, Id("b"), SemicolonTok,
       Id("a"), EqualTok, Id("b"), EqualTok, Id("nope"), SemicolonTok, Eof >>

\* the statement list the parser makes of the chained assignments
ProgChained == parse(TokensChained).value

\* the statement lists the parser makes of the for statements
ProgFor == parse(TokensFor).value
ProgForOrder == parse(TokensForOrder).value
ProgForClauses == parse(TokensForClauses).value
ProgForFunction == parse(TokensForFunction).value

\* var x = 1; { var x = 2; print x; } print x;
ProgShadow ==
    << VarDecl("x", Num(1)),
       BlockStmt(<< VarDecl("x", Num(2)), PrintStmt(Var("x")) >>),
       PrintStmt(Var("x")) >>

\* var x = 1; { var x = 2; print x; var y; { x = 3; y = x; print y; } } print x;
ProgScopes ==
    << VarDecl("x", Num(1)),
       BlockStmt(<< VarDecl("x", Num(2)),
                    PrintStmt(Var("x")),
                    VariableDeclarationStmt(Id("y"), <<>>),
                    BlockStmt(<< Set("x", Num(3)), Set("y", Var("x")), PrintStmt(Var("y")) >>) >>),
       PrintStmt(Var("x")) >>

\* var x = "global"; fun f() { print x; } { var x = "block"; f(); }
\* fun add(a, b) { print a + b; } add(1, 2);
ProgClosure ==
    << VarDecl("x", Str("global")),
       FunctionDeclarationStmt(Id("f"), <<>>, << PrintStmt(Var("x")) >>),
       BlockStmt(<< VarDecl("x", Str("block")), ExpressionStmt(CallOf(Var("f"), <<>>)) >>),
       FunctionDeclarationStmt(Id("add"), <<Id("a"), Id("b")>>,
                               << PrintStmt(Plus(Var("a"), Var("b"))) >>),
       ExpressionStmt(CallOf(Var("add"), <<Num(1), Num(2)>>)) >>

\* var k = 1; { var m = 2; { u = 1; } }
ProgAssignUndefined ==
    << VarDecl("k", Num(1)),
       BlockStmt(<< VarDecl("m", Num(2)), BlockStmt(<< Set("u", Num(1)) >>) >>) >>

\* fun g() { { return 1; } print "after"; } print g(); print "next";
ProgReturn ==
    << FunctionDeclarationStmt(Id("g"), <<>>,
            << BlockStmt(<< ReturnStmt(ReturnKw, <<Num(1)>>) >>), PrintStmt(Str("after")) >>),
       PrintStmt(CallOf(Var("g"), <<>>)),
       PrintStmt(Str("next")) >>

\* fun h() { while (true) if (true) return; } print h();
ProgReturnNil ==
    << FunctionDeclarationStmt(Id("h"), <<>>,
            << WhileStmt(TrueLit, IfStmt(TrueLit, ReturnStmt(ReturnKw, <<>>), <<>>)) >>),
       PrintStmt(CallOf(Var("h"), <<>>)) >>

\* var a = 0; var b = 0; { (a = 5)(a = a + 1, b = a); }
ProgCallNotCallable ==
    << VarDecl("a", Num(0)), VarDecl("b", Num(0)),
       BlockStmt(<< ExpressionStmt(CallOf(Assignment(Id("a"), Num(5)),
                        << Assignment(Id("a"), Plus(Var("a"), Num(1))),
                           Assignment(Id("b"), Var("a")) >>)) >>) >>

\* var n = 0; clock(n = 1);
ProgArityNative ==
    << VarDecl("n", Num(0)),
       ExpressionStmt(CallOf(Var("clock"), << Assignment(Id("n"), Num(1)) >>)) >>

\* fun one(p) { print p; } one(7); { one(); }
ProgArityFunction ==
    << FunctionDeclarationStmt(Id("one"), <<Id("p")>>, << PrintStmt(Var("p")) >>),
       ExpressionStmt(CallOf(Var("one"), <<Num(7)>>)),
       BlockStmt(<< ExpressionStmt(CallOf(Var("one"), <<>>)) >>) >>

\* var c = 0; clock(c = 1, nope, c = 2);
ProgArgumentError ==
    << VarDecl("c", Num(0)),
       ExpressionStmt(CallOf(Var("clock"),
            << Assignment(Id("c"), Num(1)), Var("nope"), Assignment(Id("c"), Num(2)) >>)) >>

\* var d = 0; nope(d = 1);
ProgCalleeError ==
    << VarDecl("d", Num(0)),
       ExpressionStmt(CallOf(Var("nope"), << Assignment(Id("d"), Num(1)) >>)) >>

\* if (clock) print "t"; else print "f"; print nil or 0; print 0 and "";
\* var i = 0; while (i < 2) { print i; i = i + 1; } if (nil) print "no";
\* fun t() {} print t and 1; print t or 2;
ProgTruthiness ==
    << IfStmt(Var("clock"), PrintStmt(Str("t")), << PrintStmt(Str("f")) >>),
       PrintStmt(Or(NilLit, Num(0))),
       PrintStmt(And(Num(0), Str(""))),
       VarDecl("i", Num(0)),
       WhileStmt(Less(Var("i"), Num(2)),
                 BlockStmt(<< PrintStmt(Var("i")), Set("i", Plus(Var("i"), Num(1))) >>)),
       IfStmt(NilLit, PrintStmt(Str("no")), <<>>),
       FunctionDeclarationStmt(Id("t"), <<>>, <<>>),
       PrintStmt(And(Var("t"), Num(1))),
       PrintStmt(Or(Var("t"), Num(2))) >>

\* print !nil; print !false; print !0; print !""; print !true; print !clock;
\* print (6 / 4); print -"a";
ProgUnary ==
    << PrintStmt(Bang(NilLit)), PrintStmt(Bang(FalseLit)), PrintStmt(Bang(Num(0))),
       PrintStmt(Bang(Str(""))), PrintStmt(Bang(TrueLit)), PrintStmt(Bang(Var("clock"))),
       PrintStmt(Grouping(Binary(Num(6), Op("Slash", "/"), Num(4)))),
       PrintStmt(Unary(Op("Minus", "-"), Str("a"))) >>

\* fun bad() { { nope; } print "unreached"; } { bad(); } print "unreached";
ProgErrorInCall ==
    << FunctionDeclarationStmt(Id("bad"), <<>>,
            << BlockStmt(<< ExpressionStmt(Var("nope")) >>), PrintStmt(Str("unreached")) >>),
       BlockStmt(<< ExpressionStmt(CallOf(Var("bad"), <<>>)) >>),
       PrintStmt(Str("unreached")) >>

\* fun r(n) { if (0 < n) r(n + -1); print n; } r(1); print clock() < 0;
ProgRecursion ==
    << FunctionDeclarationStmt(Id("r"), <<Id("n")>>,
            << IfStmt(Less(Num(0), Var("n")),
                      ExpressionStmt(CallOf(Var("r"),
                            << Plus(Var("n"), Unary(Op("Minus", "-"), Num(1))) >>)),
                      <<>>),
               PrintStmt(Var("n")) >>),
       ExpressionStmt(CallOf(Var("r"), <<Num(1)>>)),
       PrintStmt(Less(CallOf(Var("clock"), <<>>), Num(0))) >>

\* var s = 0; print false and nope; print 1 or nope; print nil or (s = 2);
\* print s; print true and nope; print "unreached";
ProgShortCircuit ==
    << VarDecl("s", Num(0)),
       PrintStmt(And(FalseLit, Var("nope"))),
       PrintStmt(Or(Num(1), Var("nope"))),
       PrintStmt(Or(NilLit, Grouping(Assignment(Id("s"), Num(2))))),
       PrintStmt(Var("s")),
       PrintStmt(And(TrueLit, Var("nope"))),
       PrintStmt(Str("unreached")) >>

\* var p = 1; { var q = 2; nope; } var q = 3; print "unreached";
ProgErrorStops ==
    << VarDecl("p", Num(1)),
       BlockStmt(<< VarDecl("q", Num(2)), ExpressionStmt(Var("nope")) >>),
       VarDecl("q", Num(3)),
       PrintStmt(Str("unreached")) >>

\* print p; p = p + 1; print q;
ProgAfterError ==
    << PrintStmt(Var("p")), Set("p", Plus(Var("p"), Num(1))), PrintStmt(Var("q")) >>

Programs ==
    << ProgScopes, ProgClosure, ProgAssignUndefined, ProgReturn, ProgReturnNil,
       ProgCallNotCallable, ProgArityNative, ProgArityFunction, ProgArgumentError,
       ProgCalleeError, ProgTruthiness, ProgUnary, ProgErrorInCall, ProgRecursion,
       ProgShortCircuit, ProgErrorStops, ProgAfterError, ProgFor, ProgForOrder,
       ProgForClauses, ProgForFunction, ProgChained, ProgShadow >>

(***************************************************************************)
(* Interpreter::new (interpreter.rs:105-126) and Interpreter::interpret    *)
(* (interpreter.rs:128-133).                                               *)
(***************************************************************************)
Init ==
    /\ envs = (Global :> [enclosing |-> NoEnv,
                          store |-> ("clock" :> NativeFunction(0, "clock"))])
    /\ env = Global
    /\ ctl = Idle
    /\ kont = <<>>
    /\ out = <<>>
    /\ inputs = <<>>
    /\ result = NoResult
    /\ now = 0
    /\ declEnv = <<>>
    /\ parser = NoParser
    /\ scanner = NoScanner

Interpret(stmts) ==
    /\ ctl.m = "idle"
    /\ Len(inputs) < MaxInputs
    /\ inputs' = Append(inputs, stmts)
    /\ IF stmts = <<>>
       THEN /\ result' = OkUnit
            /\ UNCHANGED <<ctl, kont>>
       ELSE /\ result' = NoResult
            /\ ctl' = Exec(Head(stmts))
            /\ kont' = <<[f |-> "interpret", rest |-> Tail(stmts)]>>
    /\ UNCHANGED <<envs, env, out, now, declEnv, parser, scanner>>

\* a variant of interpret that goes on with the next statement after a failed one
InterpretResumeSkipsFailed ==
    /\ Returned("unit", "interpret")
    /\ IF Top.rest # <<>>
       THEN /\ ctl' = Exec(Head(Top.rest))
            /\ kont' = Replace([Top EXCEPT !.rest = Tail(@)])
            /\ result' = result
       ELSE /\ ctl' = Idle
            /\ kont' = Tail(kont)
            /\ result' = ctl.res
    /\ UNCHANGED <<envs, env, out, inputs, now, declEnv, parser, scanner>>

\* the loop of interpret after a statement: `?`, then the next one or Ok(())
InterpretResume ==
    /\ Returned("unit", "interpret")
    /\ IF ctl.res.ok /\ Top.rest # <<>>
       THEN /\ ctl' = Exec(Head(Top.rest))
            /\ kont' = Replace([Top EXCEPT !.rest = Tail(@)])
            /\ result' = result
       ELSE /\ ctl' = Idle
            /\ kont' = Tail(kont)
            /\ result' = ctl.res
    /\ UNCHANGED <<envs, env, out, inputs, now, declEnv, parser, scanner>>

Next ==
    \/ \E p \in DOMAIN Programs : Interpret(Programs[p])
    \/ InterpretResume
    \/ VisitLiteral
    \/ VisitVariable
    \/ VisitGrouping
    \/ VisitUnary
    \/ VisitUnaryResume
    \/ VisitBinary
    \/ VisitBinaryLeft
    \/ VisitBinaryRight
    \/ VisitAssignment
    \/ VisitAssignmentResume
    \/ VisitLogicOr
    \/ VisitLogicOrResume
    \/ VisitLogicAnd
    \/ VisitLogicAndResume
    \/ VisitCall
    \/ VisitCallCallee
    \/ VisitCallArgs
    \/ VisitCallReject
    \/ NativeFunctionCall
    \/ FunctionCall
    \/ FunctionCallResume
    \/ VisitExpression
    \/ VisitExpressionResume
    \/ VisitPrint
    \/ VisitPrintResume
    \/ VisitFunctionDeclaration
    \/ VisitVariableDeclaration
    \/ VisitVariableDeclarationResume
    \/ VisitBlock
    \/ ExecuteBlockResume
    \/ VisitIf
    \/ VisitIfResume
    \/ VisitWhile
    \/ VisitWhileCondition
    \/ VisitWhileBody
    \/ VisitReturn
    \/ VisitReturnResume

Spec == Init /\ [][Next]_vars

(***************************************************************************)
(* The interpreter on one binary expression: a new Interpreter is given    *)
(* `print left operator right;` for every operator the parser puts into a  *)
(* Binary node (parser.rs:270, 289, 306, 322) and operands of every kind   *)
(* of value a program can write down.                                      *)
(***************************************************************************)
BinaryOperators ==
    { Op("BangEqual", "!="), Op("EqualEqual", "=="),
      Op("Greater", ">"), Op("GreaterEqual", ">="), Op("Less", "<"), Op("LessEqual", "<="),
      Op("Minus", "-"), Op("Plus", "+"), Op("Slash", "/"), Op("Star", "*") }

Operands ==
    { Num(0), Num(1), Num(2), Str("a"), Str("b"), NilLit, TrueLit, FalseLit, Var("clock") }

BinaryInit ==
    \E left \in Operands, right \in Operands, operator \in BinaryOperators :
        LET stmts == << PrintStmt(Binary(left, operator, right)) >>
        IN  /\ envs = (Global :> [enclosing |-> NoEnv,
                                  store |-> ("clock" :> NativeFunction(0, "clock"))])
            /\ env = Global
            /\ ctl = Exec(Head(stmts))
            /\ kont = <<[f |-> "interpret", rest |-> Tail(stmts)]>>
            /\ out = <<>>
            /\ inputs = <<stmts>>
            /\ result = NoResult
            /\ now = 0
            /\ declEnv = <<>>
            /\ parser = NoParser
            /\ scanner = NoScanner

BinaryNext ==
    \/ InterpretResume
    \/ VisitLiteral
    \/ VisitVariable
    \/ VisitBinary
    \/ VisitBinaryLeft
    \/ VisitBinaryRight
    \/ VisitPrint
    \/ VisitPrintResume

BinarySpec == BinaryInit /\ [][BinaryNext]_vars

(***************************************************************************)
(* The parser on its own: a Parser is made for a token vector that ends    *)
(* with the end-of-input token, and Parser::parse runs on it, one pass of  *)
(* its statement loop at a time.                                           *)
(***************************************************************************)
TokenAlphabet ==
    { VarTok, Id("x"), EqualTok, NumTok(1), SemicolonTok, LeftParenTok, RightParenTok,
      LeftBraceTok, RightBraceTok, PrintTok, Op("Plus", "+"), Op("Bang", "!"),
      Kw("Or", "or"), Kw("If", "if"), Kw("Else", "else"), ForTok }

\* the tokens of seq, the i-th on line i, then the end-of-input token
Lined(seq) ==
    [i \in 1..(Len(seq) + 1) |->
        IF i <= Len(seq) THEN [seq[i] EXCEPT !.line = i] ELSE Token("Eof", "", i)]

TokenSequences ==
    {Lined(seq) : seq \in UNION {[1..n -> TokenAlphabet] : n \in 0..MaxTokens}}
        \cup {TokensFor, TokensForOrder, TokensForClauses, TokensForFunction,
              TokensCall, TokensNotEqual}

ParseInit ==
    /\ parser \in {ParserNew(tokens) : tokens \in TokenSequences}
    /\ scanner = NoScanner
    /\ envs = (Global :> [enclosing |-> NoEnv,
                          store |-> ("clock" :> NativeFunction(0, "clock"))])
    /\ env = Global
    /\ ctl = Idle
    /\ kont = <<>>
    /\ out = <<>>
    /\ inputs = <<>>
    /\ result = NoResult
    /\ now = 0
    /\ declEnv = <<>>

\* one pass of the while loop of Parser::parse: a statement is pushed, or the
\* `?` returns the error
ParseStatement ==
    /\ parser.result = NoResult
    /\ ~at_end(parser.tokens, parser.current)
    /\ parser' = parse_iteration(parser)
    /\ UNCHANGED <<envs, env, ctl, kont, out, inputs, result, now, declEnv, scanner>>

\* the loop is over: Ok(statements)
ParseReturn ==
    /\ parser.result = NoResult
    /\ at_end(parser.tokens, parser.current)
    /\ parser' = [parser EXCEPT !.result = Ok(parser.statements)]
    /\ UNCHANGED <<envs, env, ctl, kont, out, inputs, result, now, declEnv, scanner>>

ParseNext ==
    \/ ParseStatement
    \/ ParseReturn

ParseSpec == ParseInit /\ [][ParseNext]_vars

(***************************************************************************)
(* The scanner on its own: a Scanner is made for a source text and         *)
(* scan_tokens runs on it, one pass of its loop at a time.                  *)
(***************************************************************************)
SourceAlphabet == {"1", ".", "a", "o", "r", "\"", "!", "=", "/", "\n", " ", "(", "@"}

Sources == UNION {[1..n -> SourceAlphabet] : n \in 0..MaxSource}

ScanInit ==
    /\ scanner \in {ScannerNew(source) : source \in Sources}
    /\ parser = NoParser
    /\ envs = (Global :> [enclosing |-> NoEnv,
                          store |-> ("clock" :> NativeFunction(0, "clock"))])
    /\ env = Global
    /\ ctl = Idle
    /\ kont = <<>>
    /\ out = <<>>
    /\ inputs = <<>>
    /\ result = NoResult
    /\ now = 0
    /\ declEnv = <<>>

\* one pass of the while loop of scan_tokens
ScanToken ==
    /\ scanner.result = NoResult
    /\ ~scanner_at_end(scanner)
    /\ scanner' = scan_token([scanner EXCEPT !.start = scanner.current])
    /\ UNCHANGED <<envs, env, ctl, kont, out, inputs, result, now, declEnv, parser>>

\* the loop is over
ScanReturn ==
    /\ scanner.result = NoResult
    /\ scanner_at_end(scanner)
    /\ scanner' = scan_tokens_return(scanner)
    /\ UNCHANGED <<envs, env, ctl, kont, out, inputs, result, now, declEnv, parser>>

ScanNext ==
    \/ ScanToken
    \/ ScanReturn

ScanSpec == ScanInit /\ [][ScanNext]_vars

(***************************************************************************)
(* Properties.                                                             *)
(***************************************************************************)
\* the innermost scope on the chain from e whose store holds `text`; NoEnv if none
RECURSIVE Innermost(_, _, _)
Innermost(h, e, text) ==
    IF e = NoEnv THEN NoEnv
    ELSE IF text \in DOMAIN h[e].store THEN e
    ELSE Innermost(h, h[e].enclosing, text)

\* the language's truthiness: everything but nil and false
Truthy(value) == ~(value.t = "Nil" \/ (value.t = "Boolean" /\ ~value.b))

\* the `previous` of the unfinished execute_block calls, innermost first
RECURSIVE SavedEnvs(_)
SavedEnvs(k) ==
    IF k = <<>> THEN <<>>
    ELSE IF Head(k).f = "execute_block" THEN <<Head(k).previous>> \o SavedEnvs(Tail(k))
    ELSE SavedEnvs(Tail(k))

Finished(stmts) == ctl.m = "idle" /\ inputs = <<stmts>>
IsRuntimeError(res) == ~res.ok /\ res.error = "RuntimeError"

\* the step in which Function::call starts the body of a user function
FunctionCallStep ==
    /\ ctl.m = "call"
    /\ ctl.callee.t = "Function"
    /\ Len(kont') = Len(kont) + 2
    /\ Head(kont').f = "execute_block"

\* C1: every call of a user function makes one fresh Environment whose
\* enclosing link is the Environment that was current when the function's
\* declaration statement executed, not the one current at the call site.
C1_CallEnclosesDeclarationEnv ==
    [][FunctionCallStep =>
            /\ env' \notin DOMAIN envs
            /\ envs'[env'].enclosing = declEnv[ctl.callee.declaration.name.text]]_vars

\* C2: the current Environment is always the one the innermost unfinished
\* block or call body made, the Environments saved at the entries of the
\* unfinished blocks are exactly the rest of its chain, outermost the global
\* one; so when a block or call body finishes, with Ok or with an error, the
\* Environment current before it is current again, and when interpret has
\* returned the global Environment is current.
C2_EnvRestored ==
    /\ Chain(envs, env) = <<env>> \o SavedEnvs(kont)
    /\ Chain(envs, env)[Len(Chain(envs, env))] = Global
    /\ ctl.m = "idle" => env = Global /\ kont = <<>>

\* an error has come out of a block inside a call body inside a block, and the
\* global Environment is current again
C2_Witness ==
    /\ inputs = <<ProgErrorInCall>>
    /\ ctl.m = "unit" /\ IsRuntimeError(ctl.res)
    /\ Len(kont) = 1 /\ Top.f = "interpret"
    /\ env = Global

\* the step in which visit_assignment assigns an evaluated value
AssignStep == Returned("value", "visit_assignment") /\ ctl.res.ok

\* C3: a successful assignment to n changes the value of n in the innermost
\* scope of the current chain that holds n and nothing else: no other scope,
\* no other name, no new key, no new scope; a read of n returns the value of
\* that same scope.
C3_AssignInnermostOnly ==
    [][/\ (AssignStep /\ ctl'.res.ok) =>
            LET n == Top.name.text
                target == Innermost(envs, env, n)
            IN  /\ target # NoEnv
                /\ DOMAIN envs' = DOMAIN envs
                /\ envs'[target].store[n] = ctl.res.value
                /\ \A i \in DOMAIN envs :
                    /\ envs'[i].enclosing = envs[i].enclosing
                    /\ DOMAIN envs'[i].store = DOMAIN envs[i].store
                    /\ \A k \in DOMAIN envs[i].store :
                        (i # target \/ k # n) => envs'[i].store[k] = envs[i].store[k]
       /\ (Evaluating("Variable") /\ ctl'.res.ok) =>
            LET n == ctl.expr.name.text
            IN  ctl'.res.value = envs[Innermost(envs, env, n)].store[n]]_vars

\* `x = 3` two blocks deep has changed the x of the enclosing block, which is
\* neither the current scope nor the global one, and left the global x alone
C3_Witness ==
    /\ inputs = <<ProgScopes>>
    /\ ctl = Value(Ok(Number(3)))
    /\ envs[Global].store["x"] = Number(1)
    /\ "x" \notin DOMAIN envs[env].store
    /\ envs[envs[env].enclosing].store["x"] = Number(3)

\* the step in which a var declaration binds its name
DeclareStep ==
    \/ Returned("value", "visit_variable_declaration") /\ ctl.res.ok
    \/ Executing("VariableDeclaration") /\ ctl.stmt.initializer = <<>>
DeclaredName ==
    IF ctl.m = "execute" THEN ctl.stmt.name ELSE Top.name
DeclaredValue ==
    IF ctl.m = "execute" THEN Nil ELSE ctl.res.value

\* C4: an assignment to a name that no scope of the current chain holds gives
\* a RuntimeError and changes no scope; once the name is declared an
\* assignment to it succeeds, and a read of the name then gives the value
\* assigned.
C4_AssignUndefined ==
    [][/\ (AssignStep /\ Innermost(envs, env, Top.name.text) = NoEnv) =>
            /\ IsRuntimeError(ctl'.res)
            /\ envs' = envs
       /\ DeclareStep => Innermost(envs', env', DeclaredName.text) # NoEnv
       /\ (AssignStep /\ Innermost(envs, env, Top.name.text) # NoEnv) =>
            /\ ctl' = Value(Ok(ctl.res.value))
            /\ get(envs', env', Top.name) = Ok(ctl.res.value)]_vars

\* `u = 1` with u declared nowhere has failed, inside two blocks
C4_Witness ==
    /\ ctl.m = "value" /\ IsRuntimeError(ctl.res)
    /\ ctl.res.msg = "Undefined variable u"
    /\ Len(SavedEnvs(kont)) = 2
    /\ \A i \in DOMAIN envs : "u" \notin DOMAIN envs[i].store

\* C5: a var declaration binds the name in the current Environment only: a
\* read there sees the declared value, every other scope is as it was, the
\* enclosing ones with their binding of the same name included; and
\* `var x = 1; { var x = 2; print x; } print x;` prints 2 then 1.
C5_DeclareLocalOnly ==
    [][/\ DeclareStep =>
            /\ DOMAIN envs' = DOMAIN envs
            /\ env' = env
            /\ envs'[env].enclosing = envs[env].enclosing
            /\ \A i \in DOMAIN envs \ {env} : envs'[i] = envs[i]
            /\ \A k \in DOMAIN envs[env].store \ {DeclaredName.text} :
                    envs'[env].store[k] = envs[env].store[k]
            /\ get(envs', env, DeclaredName) = Ok(DeclaredValue)
       /\ (ctl'.m = "idle" /\ inputs' = <<ProgShadow>>) => out' = <<"2", "1">>]_vars

\* inside the block x is 2 while the global x is still 1
C5_Witness ==
    /\ inputs = <<ProgShadow>>
    /\ env # Global
    /\ "x" \in DOMAIN envs[env].store
    /\ envs[env].store["x"] = Number(2)
    /\ envs[Global].store["x"] = Number(1)
    /\ out = <<"2">>

\* C6: a return statement inside a function body, also inside blocks, ifs and
\* loops of the body, ends the call: the call expression evaluates to the
\* value of the return, nil when it has none.
C6_ReturnGivesCallValue ==
    [][(Returned("unit", "call") /\ ~ctl.res.ok /\ ctl.res.error = "Return") =>
            ctl' = Value(Ok(ctl.res.value))]_vars

\* C7: a call of a value that is no function, and a call with an argument
\* count that is not the callee's arity, give a RuntimeError, the second
\* naming the expected and the actual count; the body is not executed, no
\* Environment is made and the current one stays.
C7_CallRejected ==
    [][/\ (ctl.m = "call" /\ ctl.callee.t \notin {"Function", "NativeFunction"}) =>
            /\ ctl' = Value(RuntimeError(ctl.paren, "Can only call functions and classes"))
            /\ UNCHANGED <<envs, env, kont, out>>
       /\ (ctl.m = "call" /\ ctl.callee.t = "Function"
                /\ Len(ctl.args) # Len(ctl.callee.declaration.params)) =>
            /\ ctl' = Value(ArityError(ctl.paren, Len(ctl.callee.declaration.params),
                                       Len(ctl.args)))
            /\ UNCHANGED <<envs, env, kont, out>>
       /\ (ctl.m = "call" /\ ctl.callee.t = "NativeFunction"
                /\ Len(ctl.args) # ctl.callee.arity) =>
            /\ ctl' = Value(ArityError(ctl.paren, ctl.callee.arity, Len(ctl.args)))
            /\ UNCHANGED <<envs, env, kont, out, now>>]_vars

\* `clock(n = 1)` has been refused: one argument where none is expected
C7_Witness ==
    /\ inputs = <<ProgArityNative>>
    /\ ctl = Value(RuntimeError(Paren, "Expected 0 arguments but got 1 arguments"))
    /\ env = Global /\ DOMAIN envs = {Global}

\* C8: visit_call evaluates the callee first, then the arguments from left to
\* right, all of them before it looks whether the callee can be called; an
\* error of the callee or of an argument is the result of the call at once,
\* no later argument is evaluated.
C8_CallEvaluationOrder ==
    [][/\ Evaluating("Call") => ctl' = Eval(ctl.expr.callee)
       /\ (Returned("value", "visit_call_callee") /\ ctl.res.ok /\ Top.args # <<>>) =>
            ctl' = Eval(Top.args[1])
       /\ (Returned("value", "visit_call_args") /\ ctl.res.ok
                /\ Len(Top.done) + 1 < Len(Top.args)) =>
            ctl' = Eval(Top.args[Len(Top.done) + 2])
       /\ (Returned("value", "visit_call_args") /\ ctl.res.ok
                /\ Len(Top.done) + 1 = Len(Top.args)) =>
            ctl' = Ready(Top.callee, Append(Top.done, ctl.res.value), Top.paren)
       /\ ((Returned("value", "visit_call_callee") \/ Returned("value", "visit_call_args"))
                /\ ~ctl.res.ok) =>
            /\ ctl' = ctl
            /\ kont' = Tail(kont)
       /\ (ctl'.m = "idle" /\ inputs' = <<ProgCallNotCallable>>) =>
            /\ envs'[Global].store["a"] = Number(6)
            /\ envs'[Global].store["b"] = Number(6)
       /\ (ctl'.m = "idle" /\ inputs' = <<ProgArgumentError>>) =>
            envs'[Global].store["c"] = Number(1)]_vars

\* `(a = 5)(a = a + 1, b = a)` has failed because 5 cannot be called, after
\* the callee and both arguments were evaluated in that order
C8_Witness ==
    /\ Finished(ProgCallNotCallable)
    /\ IsRuntimeError(result) /\ result.msg = "Can only call functions and classes"
    /\ envs[Global].store["a"] = Number(6)
    /\ envs[Global].store["b"] = Number(6)

\* C9: if, while, or and and take a value as true exactly when it is neither
\* nil nor false: numbers, strings, functions and native functions are true.
C9_TruthinessOfEveryValue ==
    [][/\ (Returned("value", "visit_if") /\ ctl.res.ok /\ Truthy(ctl.res.value)) =>
            ctl' = Exec(Top.then_branch)
       /\ (Returned("value", "visit_if") /\ ctl.res.ok /\ ~Truthy(ctl.res.value)) =>
            ctl' # Exec(Top.then_branch)
       /\ (Returned("value", "visit_while") /\ ctl.res.ok) =>
            (ctl' = Exec(Top.body)) = Truthy(ctl.res.value)
       /\ (Returned("value", "visit_logic_or") /\ ctl.res.ok) =>
            (ctl' = ctl) = Truthy(ctl.res.value)
       /\ (Returned("value", "visit_logic_and") /\ ctl.res.ok) =>
            (ctl' = Eval(Top.right)) = Truthy(ctl.res.value)]_vars

\* C10: `!` gives the Boolean negation of the truthiness of its operand.
C10_BangNegates ==
    [][(Returned("value", "visit_unary") /\ ctl.res.ok
            /\ Top.operator.token_type = "Bang") =>
            ctl' = Value(Ok(Boolean(~Truthy(ctl.res.value))))]_vars

\* the step in which visit_logic_and / visit_logic_or has the value of the left operand
LogicStep(f) == Returned("value", f) /\ ctl.res.ok

\* C11: `and` and `or` evaluate the left operand first and once; the right
\* operand is evaluated only when the left one is truthy (and) or falsy (or),
\* and then its value or error is the result; otherwise the left value itself
\* is the result and nothing of the right operand happens; an error of the
\* left operand is the result at once.
C11_ShortCircuit ==
    [][/\ (Evaluating("LogicAnd") \/ Evaluating("LogicOr")) =>
            /\ ctl' = Eval(ctl.expr.left)
            /\ Tail(kont') = kont
       /\ (LogicStep("visit_logic_and") /\ Truthy(ctl.res.value)) =>
            ctl' = Eval(Top.right) /\ kont' = Tail(kont)
       /\ (LogicStep("visit_logic_and") /\ ~Truthy(ctl.res.value)) =>
            ctl' = ctl /\ kont' = Tail(kont) /\ UNCHANGED <<envs, env, out>>
       /\ (LogicStep("visit_logic_or") /\ ~Truthy(ctl.res.value)) =>
            ctl' = Eval(Top.right) /\ kont' = Tail(kont)
       /\ (LogicStep("visit_logic_or") /\ Truthy(ctl.res.value)) =>
            ctl' = ctl /\ kont' = Tail(kont) /\ UNCHANGED <<envs, env, out>>
       /\ ((Returned("value", "visit_logic_and") \/ Returned("value", "visit_logic_or"))
                /\ ~ctl.res.ok) =>
            ctl' = ctl /\ kont' = Tail(kont)
       /\ (ctl'.m = "idle" /\ inputs' = <<ProgShortCircuit>>) =>
            /\ out' = <<"false", "1", "2", "2">>
            /\ IsRuntimeError(result') /\ result'.msg = "Undefined variable: nope"]_vars

\* the step in which visit_binary has both operand values
BinaryStep == Returned("value", "visit_binary_right") /\ ctl.res.ok

TypedOperators ==
    {"Plus", "Minus", "Star", "Slash", "Greater", "GreaterEqual", "Less", "LessEqual"}

\* two Numbers for every typed operator, two Strings for `+` as well
Admissible(left, tt, right) ==
    \/ left.t = "Number" /\ right.t = "Number"
    \/ tt = "Plus" /\ left.t = "String" /\ right.t = "String"

\* C12: for + - * / > >= < <= visit_binary gives a RuntimeError exactly when
\* the operands are not two Numbers or, for +, two Strings; two Strings give
\* the left text followed by the right text, two Numbers a Number (+ - * /)
\* or a Boolean (comparisons); a refused pairing prints nothing and is the
\* result of interpret.
C12_BinaryOperandTypes ==
    [][/\ (BinaryStep /\ Top.operator.token_type \in TypedOperators) =>
            LET left == Top.left
                right == ctl.res.value
                tt == Top.operator.token_type
            IN  /\ ctl'.m = "value"
                /\ IsRuntimeError(ctl'.res) = ~Admissible(left, tt, right)
                /\ ctl'.res.ok = Admissible(left, tt, right)
                /\ (left.t = "String" /\ right.t = "String" /\ tt = "Plus") =>
                        ctl'.res.value = String(left.s \o right.s)
                /\ (left.t = "Number" /\ right.t = "Number") =>
                        ctl'.res.value.t =
                            IF tt \in {"Plus", "Minus", "Star", "Slash"}
                            THEN "Number" ELSE "Boolean"
                /\ ~Admissible(left, tt, right) => ctl'.res.line = Top.operator.line
       /\ (Returned("value", "visit_print") /\ ~ctl.res.ok) =>
            out' = out /\ ctl' = Unit(ctl.res)
       /\ (ctl'.m = "idle" /\ inputs' = << <<PrintStmt(Plus(Num(1), Str("a")))>> >>) =>
            /\ out' = <<>>
            /\ result' = RuntimeError(Op("Plus", "+"), "Operands must be numbers or strings")
       /\ (ctl'.m = "idle" /\ inputs' = << <<PrintStmt(Plus(Str("a"), Str("b")))>> >>) =>
            out' = <<"ab">> /\ result' = OkUnit
       /\ (ctl'.m = "idle" /\ inputs' = << <<PrintStmt(Plus(Num(1), Num(2)))>> >>) =>
            out' = <<"3">> /\ result' = OkUnit]_vars

\* `1 + "a"` has been refused, with nothing printed
C12_Witness ==
    /\ inputs = << <<PrintStmt(Plus(Num(1), Str("a")))>> >>
    /\ ctl = Value(RuntimeError(Op("Plus", "+"), "Operands must be numbers or strings"))
    /\ out = <<>>

\* C13: a runtime error of a statement ends the interpret call: the error is
\* what interpret returns, no later statement of the input is executed, and
\* the global Environment keeps the bindings made before the error, which a
\* later interpret call on the same Interpreter reads and writes.
C13_ErrorStopsInput ==
    [][/\ (Returned("unit", "interpret") /\ IsRuntimeError(ctl.res)) =>
            /\ ctl' = Idle
            /\ kont' = <<>>
            /\ result' = ctl.res
            /\ UNCHANGED <<envs, env, out>>
       /\ (ctl.m = "idle" /\ ctl'.m # "idle") =>
            /\ UNCHANGED <<envs, env, out>>
            /\ ctl' = Exec(Head(inputs'[Len(inputs')]))
       /\ (ctl'.m = "idle" /\ inputs' = <<ProgErrorStops>>) =>
            /\ IsRuntimeError(result') /\ result'.msg = "Undefined variable: nope"
            /\ out' = <<>>
            /\ DOMAIN envs'[Global].store = {"clock", "p"}
            /\ envs'[Global].store["p"] = Number(1)
       /\ (ctl'.m = "idle" /\ inputs' = <<ProgErrorStops, ProgAfterError>>) =>
            /\ out' = <<"1">>
            /\ IsRuntimeError(result') /\ result'.msg = "Undefined variable: q"
            /\ DOMAIN envs'[Global].store = {"clock", "p"}
            /\ envs'[Global].store["p"] = Number(2)]_vars

\* after `nope` failed in the first input, the second input has printed the p
\* that the first one declared, and has failed on q, declared after the error
C13_Witness ==
    /\ ctl.m = "idle"
    /\ inputs = <<ProgErrorStops, ProgAfterError>>
    /\ out = <<"1">>
    /\ IsRuntimeError(result) /\ result.msg = "Undefined variable: q"

\* C14: `for (init; cond; incr) body` runs init once, then cond, and while
\* cond is truthy body, incr and cond again; a missing cond is literal true, a
\* missing init or incr adds nothing; a variable declared in init lives in a
\* block around the loop: `for (var i = 0; i < 3; i = i + 1) print i;` prints
\* 0, 1, 2 and a read of i after the loop is an undefined-variable error; a
\* cond that is a function, a truthy value, lets the body run.
C14_ForLoop ==
    [][/\ (ctl'.m = "idle" /\ inputs' = <<ProgFor>>) =>
            /\ ProgFor =
                << BlockStmt(<< VarDecl("i", Num(0)),
                                WhileStmt(Less(Var("i"), Num(3)),
                                          BlockStmt(<< PrintStmt(Var("i")),
                                                       Set("i", Plus(Var("i"), Num(1))) >>)) >>),
                   PrintStmt(Var("i")) >>
            /\ out' = <<"0", "1", "2">>
            /\ IsRuntimeError(result') /\ result'.msg = "Undefined variable: i"
            /\ "i" \notin DOMAIN envs'[Global].store
       /\ (ctl'.m = "idle" /\ inputs' = <<ProgForOrder>>) =>
            out' = <<"acbic">> /\ result' = OkUnit
       /\ (ctl'.m = "idle" /\ inputs' = <<ProgForClauses>>) =>
            /\ ProgForClauses[2].kind = "While"
            /\ ProgForClauses[2].condition = Less(Var("j"), Num(2))
            /\ ProgForClauses[2].body =
                    BlockStmt(<< PrintStmt(Var("j")), Set("j", Plus(Var("j"), Num(1))) >>)
            /\ ProgForClauses[4].kind = "While"
            /\ ProgForClauses[4].condition = TrueLit
            /\ out' = <<"0", "1", "2", "x">>
            /\ IsRuntimeError(result') /\ result'.msg = "Undefined variable: nope"
       /\ (ctl'.m = "idle" /\ inputs' = <<ProgForFunction>>) =>
            /\ out' = <<"body">>
            /\ IsRuntimeError(result') /\ result'.msg = "Undefined variable: nope"]_vars

\* C15: whatever the tokens, parse ends with Ok or, at the first malformed
\* construct, with a ParseError that has a line of the input and a message;
\* it never fails in another way, also not when the first token is the
\* offending one.
C15_ParseErrorsOnly ==
    parser.result # NoResult =>
        \/ parser.result.ok
        \/ /\ parser.result.error = "ParseError"
           /\ parser.result.line \in {parser.tokens[i].line : i \in DOMAIN parser.tokens}
           /\ parser.result.msg # ""

\* C17: a primary followed by `(`, expressions separated by commas and `)`
\* parses to a Call of the primary with the arguments in source order:
\* `f(1, 2);` is one expression statement holding Call(Variable f, [1, 2]).
C17_ParsesCalls ==
    (parser.tokens = TokensCall /\ parser.result # NoResult) =>
        /\ parser.result.ok
        /\ Len(parser.result.value) = 1
        /\ parser.result.value[1].kind = "Expression"
        /\ parser.result.value[1].expr.kind = "Call"
        /\ parser.result.value[1].expr.callee = Var("f")
        /\ parser.result.value[1].expr.args = <<Num(1), Num(2)>>

\* the index, 0-based, of the end-of-input token
EofIndex(tokens) == Len(tokens) - 1

\* `stmt`, a statement parsed at cursor c, ends within the tokens, and after c
\* or with a ParseError
Progress(tokens, c, stmt) ==
    /\ stmt.current \in c..EofIndex(tokens)
    /\ \/ stmt.ok /\ stmt.current > c
       \/ ~stmt.ok /\ stmt.error = "ParseError"

\* C20: parse terminates: the cursor never decreases and never passes the
\* end-of-input token, the statement loop of parse takes a step only while it
\* has no result, and every pass of the statement loops of parse and
\* parse_block (a statement parsed at any cursor after the first token and
\* before the end-of-input token) consumes at least one token or returns a
\* ParseError.
C20_ParserProgress ==
    /\ [](parser.current \in 0..EofIndex(parser.tokens))
    /\ [](\A c \in 1..(EofIndex(parser.tokens) - 1) :
            Progress(parser.tokens, c, parse_declaration_statement(parser.tokens, c)))
    /\ [][/\ parser'.current >= parser.current
          /\ parser.result = NoResult
          /\ \/ parser'.result = NoResult /\ parser'.current > parser.current
             \/ parser'.result # NoResult /\ parser'.result.ok
                    /\ at_end(parser.tokens, parser.current)
             \/ parser'.result # NoResult /\ ~parser'.result.ok
                    /\ parser'.result.error = "ParseError"]_vars

\* C19: visit_binary evaluates every operator the parser puts in a Binary node
\* without an "Unknown binary operator" error; `a != b` is, for all values a
\* and b, the Boolean negation of `a == b`, never an error: `print 1 != 2;`
\* prints true.
C19_NotEqualEvaluated ==
    [][/\ BinaryStep =>
            /\ ctl'.m = "value"
            /\ ~(IsRuntimeError(ctl'.res) /\ ctl'.res.msg = "Unknown binary operator")
            /\ Top.operator.token_type = "BangEqual" =>
                    ctl'.res = Ok(Boolean(~ValueEq(Top.left, ctl.res.value)))
       /\ (ctl'.m = "idle" /\ inputs' = <<parse(TokensNotEqual).value>>) =>
            out' = <<"true">> /\ result' = OkUnit]_vars

\* C16: a scan failure is an error result of the scan: after an unterminated
\* string (reported on stderr) or a char that starts no token, scan_tokens
\* does not return a token vector as if the scan had completed, and it never
\* ends in a panic.
C16_ScanErrorsStructured ==
    scanner.result # NoResult =>
        /\ ~scanner.result.ok => scanner.result.error # "panic"
        /\ scanner.stderr # <<>> => ~scanner.result.ok
        /\ scanner.source = <<"\"", "a">> => ~scanner.result.ok
        /\ scanner.source = <<"@">> => ~scanner.result.ok

\* the Eof token is the last token of `tokens`, and only the last
EofLastOnly(tokens) ==
    /\ tokens # <<>>
    /\ \A i \in 1..Len(tokens) : (tokens[i].token_type = "Eof") <=> (i = Len(tokens))

\* C18: for every source, start <= current <= source length holds always,
\* every pass of the loop of scan_tokens moves current forward, and
\* scan_tokens ends, at the end of the source, by returning tokens of which
\* the last, and only the last, is the Eof token.
C18_ScannerProgress ==
    /\ [](scanner.start <= scanner.current /\ scanner.current <= Len(scanner.source))
    /\ [][/\ scanner.result = NoResult
          /\ ~scanner_at_end(scanner) => scanner'.current > scanner.current
          /\ scanner'.result # NoResult =>
                /\ scanner_at_end(scanner)
                /\ scanner'.result.ok
                /\ EofLastOnly(scanner'.result.value)
                /\ scanner'.current = Len(scanner.source)]_vars

\* following the enclosing links from e ends at None within n links
RECURSIVE EndsWithin(_, _, _)
EndsWithin(h, e, n) ==
    IF e = NoEnv THEN TRUE
    ELSE IF n = 0 \/ e \notin DOMAIN h THEN FALSE
    ELSE EndsWithin(h, h[e].enclosing, n - 1)

\* the calls of execute_block that have not finished: the blocks and the
\* function-call bodies being executed
ActiveBlocks == {i \in DOMAIN kont : kont[i].f = "execute_block"}

\* C21: the chain of enclosing links from the current Environment is finite
\* and without a cycle, it ends at the global Environment of Interpreter::new,
\* which holds clock and is the only Environment with no enclosing link, and
\* it has one Environment more than there are unfinished blocks and
\* function-call bodies.
C21_EnvChain ==
    /\ env \in DOMAIN envs
    /\ EndsWithin(envs, env, Cardinality(DOMAIN envs))
    /\ \A i, j \in DOMAIN Chain(envs, env) :
            Chain(envs, env)[i] = Chain(envs, env)[j] => i = j
    /\ Global \in DOMAIN envs
    /\ "clock" \in DOMAIN envs[Global].store
    /\ \A e \in DOMAIN envs : (envs[e].enclosing = NoEnv) <=> (e = Global)
    /\ Chain(envs, env)[Len(Chain(envs, env))] = Global
    /\ Len(Chain(envs, env)) = 1 + Cardinality(ActiveBlocks)

\* three execute_block calls are unfinished, one at least the body of a called
\* function, and four Environments are on the chain
C21_Witness ==
    /\ Cardinality(ActiveBlocks) = 3
    /\ \E i \in DOMAIN kont : kont[i].f = "call"
    /\ Len(Chain(envs, env)) = 4

\* C22: visit_assignment evaluates the right-hand side first and changes no
\* scope until it has its value; a successful assignment gives the value it
\* assigned, a failed right-hand side is the result and no scope changes.  In
\* `a = b = 3` b is assigned before a and both are 3 afterwards; in
\* `a = b = nope` neither changes.
C22_AssignmentValue ==
    [][/\ Evaluating("Assignment") =>
            /\ ctl' = Eval(ctl.expr.value)
            /\ envs' = envs
       /\ (AssignStep /\ ctl'.res.ok) =>
            /\ ctl' = Value(Ok(ctl.res.value))
            /\ get(envs', env', Top.name) = Ok(ctl.res.value)
       /\ (Returned("value", "visit_assignment") /\ ~ctl.res.ok) =>
            /\ ctl' = ctl
            /\ envs' = envs
       /\ (inputs = <<ProgChained>> /\ AssignStep /\ Top.name.text = "b") =>
            /\ ctl.res.value = Number(3)
            /\ envs[Global].store["a"] = Number(1)
            /\ envs'[Global].store["a"] = Number(1)
            /\ envs'[Global].store["b"] = Number(3)
       /\ (inputs = <<ProgChained>> /\ AssignStep /\ Top.name.text = "a") =>
            /\ ctl.res.value = Number(3)
            /\ envs[Global].store["b"] = Number(3)
            /\ envs'[Global].store["a"] = Number(3)
       /\ (ctl'.m = "idle" /\ inputs' = <<ProgChained>>) =>
            /\ out' = <<"3", "3", "3">>
            /\ IsRuntimeError(result') /\ result'.msg = "Undefined variable: nope"
            /\ envs'[Global].store["a"] = Number(3)
            /\ envs'[Global].store["b"] = Number(3)]_vars

\* `a = b = 3` has given 3 to print, with a and b both 3 and nothing printed yet
C22_Witness ==
    /\ inputs = <<ProgChained>>
    /\ ctl = Value(Ok(Number(3)))
    /\ kont # <<>> /\ Top.f = "visit_print"
    /\ out = <<>>
    /\ envs[Global].store["a"] = Number(3)
    /\ envs[Global].store["b"] = Number(3)

====
